---- MODULE Spec2Model ----
(***************************************************************************)
(* Model of the recompose reconciliation engine (crates/recompose_core):   *)
(* the Scope tree, the hook-indexed state slots, the AnyCompose adapter,   *)
(* the keyed-list (Vec<K>), tuple, Option and DynCompose composables, the  *)
(* StateSetter queue, and the chained PreUpdate systems of RecomposePlugin.*)
(*                                                                         *)
(* Every system of the chain is one action.  The recursion of              *)
(* recompose_scope is a RECURSIVE operator threading a record w that holds *)
(* the process-wide UNIQUE_ID counter, the panic (if one was raised) and a *)
(* log of what happened inside the call (compose invocations, hook         *)
(* observations, flag transitions, node creations, decompose hooks).       *)
(***************************************************************************)
EXTENDS Integers, Sequences, FiniteSets, TLC

\* ------------------------------------------------------------------ bounds
MaxKey == 2
MaxTicks == 3
MaxSubmits == 2
MaxRoots == 1
MaxReplaces == 1
StepCap == 1
MaxInt == 1
QuietTicks == 5
LastSubmitTick == 1

VARIABLES
    roots,        \* Query<&mut Root>: sequence of [entity, compose, scope]
    queued,       \* StateSetter.queued : StateId -> StateSetterAction
    uid,          \* UNIQUE_ID
    entities,     \* ECS entities carrying SpawnComposable(scope_id)
    next_entity,  \* ECS entity allocator
    phase,        \* number of systems of the chain already run in this tick
    tick,         \* number of ticks started
    log,          \* what the last action did, in order
    trace,        \* systems run so far in the current tick, in order
    panicked,     \* "" or the panic message that aborted the program
    submits,      \* external SetState calls made so far
    spawned,      \* Roots spawned so far
    progs,        \* the user programs Root::new may be given in this run
    horizon,      \* the number of runs of PreUpdate this run is followed for
    closure_ids,  \* StateIds the systems of the last run_queued_systems called SetState for
    seen          \* StateId -> the value its slot had when the pending action was submitted

vars == <<roots, queued, uid, entities, next_entity, phase, tick, log, trace,
          panicked, submits, spawned, progs, horizon, closure_ids, seen>>

NoPanic == ""

\* ------------------------------------------------------------ sequences
Last(s) == s[Len(s)]

RECURSIVE SeqToSet(_)
SeqToSet(s) == IF s = <<>> THEN {} ELSE {Head(s)} \cup SeqToSet(Tail(s))

\* iter().find(|x| x.id == id): position of the first element with that id,
\* or 0
FindId(s, id) ==
    IF \E i \in 1..Len(s) : s[i].id = id
    THEN CHOOSE i \in 1..Len(s) : s[i].id = id /\ \A j \in 1..(i - 1) : s[j].id # id
    ELSE 0

\* ------------------------------------------------------------ state ids
Generated(n) == [gen |-> TRUE, n |-> n]
Manual(n) == [gen |-> FALSE, n |-> n]

\* ------------------------------------------------------------ values
\* Arc<dyn Any>: a value together with the type it was erased from
Val(ty, v) == [ty |-> ty, v |-> v]
UnitVal == Val("()", 0)

\* ------------------------------------------------------------ composables
Unit == [kind |-> "Unit"]
Leaf(ty) == [kind |-> "Leaf", ty |-> ty]
\* a user struct holding a State<T> its parent gave it
Holder(op, h) == [kind |-> "Leaf", ty |-> op, held |-> h]
\* a user struct whose state has the type its field says
Typed(ty, of) == [kind |-> "Leaf", ty |-> ty, of |-> of]

\* Any::type_id of the concrete composable
TypeIdOf(c) == IF c.kind = "Leaf" THEN c.ty
               ELSE IF c.kind = "Fn" THEN c.f
               ELSE IF c.kind = "Unit" THEN "()"
               ELSE c.kind
DynCompose(c) == [kind |-> "Dyn", type_id |-> TypeIdOf(c), compose |-> c]
Keyed(key, c) == [kind |-> "Keyed", key |-> key, compose |-> DynCompose(c)]
VecOf(items) == [kind |-> "Vec", items |-> items]
TupleOf(items) == [kind |-> "Tuple", items |-> items]
OptionOf(some, c) == [kind |-> "Option", some |-> some, inner |-> c]
Fn(f, init) == [kind |-> "Fn", f |-> f, init |-> init]
\* Spawn::new(bundle).children(c): Modifier.children is a DynCompose
SpawnOf(c) == [kind |-> "Spawn", children |-> DynCompose(c)]

\* ------------------------------------------------------------ the threaded record
World(u) == [uid |-> u, log |-> <<>>, panic |-> NoPanic]
Ev(w, e) == [w EXCEPT !.log = Append(@, e)]
Panic(w, msg) == [w EXCEPT !.panic = msg, !.log = Append(@, [e |-> "panic", msg |-> msg])]
Ok(w) == w.panic = NoPanic

\* ------------------------------------------------------------ Scope
NewScope(composer, index, id) ==
    [id |-> id, index |-> index, entity |-> <<>>, will_decompose |-> FALSE,
     composer |-> composer, state_index |-> 0, states |-> <<>>,
     children |-> <<>>, queued_systems |-> <<>>]

AsRootScope(entity, composer, id) ==
    [NewScope(composer, 0, id) EXCEPT !.entity = <<entity>>]

\* DynState::to_state: the typed handle, a snapshot of id, flag and value
ToState(st) == [id |-> st.id, changed |-> st.changed, value |-> st.value]
NoHandle == [id |-> Manual(0 - 1), changed |-> "Unchanged", value |-> UnitVal]

\* a faulty hook: a slot of another type is overwritten with the initial value
UseStateCoerce(cx, w, init) ==
    IF cx.state_index < Len(cx.states)
    THEN LET st == [cx.states[cx.state_index + 1] EXCEPT
                       !.value = IF @.ty # init.ty THEN init ELSE @]
         IN [s |-> [cx EXCEPT !.state_index = @ + 1, !.states[cx.state_index + 1] = st],
             h |-> ToState(st),
             w |-> Ev(w, [e |-> "hook", n |-> cx.id, id |-> st.id,
                          changed |-> st.changed, value |-> st.value,
                          created |-> FALSE])]
    ELSE LET st == [id |-> Generated(w.uid), changed |-> "Changed", value |-> init]
         IN [s |-> [cx EXCEPT !.states = Append(@, st), !.state_index = @ + 1],
             h |-> ToState(st),
             w |-> Ev([w EXCEPT !.uid = @ + 1],
                      [e |-> "hook", n |-> cx.id, id |-> st.id, changed |-> st.changed,
                       value |-> st.value, created |-> TRUE])]

\* Scope::use_state.  Result: [s, w, h]
UseState(cx, w, init) ==
    IF cx.state_index < Len(cx.states)
    THEN LET st == cx.states[cx.state_index + 1]
             cx1 == [cx EXCEPT !.state_index = @ + 1]
         IN IF st.value.ty # init.ty
            THEN [s |-> cx1, w |-> Panic(w, "State value type mismatch."), h |-> NoHandle]
            ELSE [s |-> cx1, h |-> ToState(st),
                  w |-> Ev(w, [e |-> "hook", n |-> cx.id, id |-> st.id,
                               changed |-> st.changed, value |-> st.value,
                               created |-> FALSE])]
    ELSE LET st == [id |-> Generated(w.uid), changed |-> "Changed", value |-> init]
         IN [s |-> [cx EXCEPT !.states = Append(@, st), !.state_index = @ + 1],
             h |-> ToState(st),
             w |-> Ev([w EXCEPT !.uid = @ + 1],
                      [e |-> "hook", n |-> cx.id, id |-> st.id, changed |-> st.changed,
                       value |-> st.value, created |-> TRUE])]

\* Scope::use_state_with_id
UseStateWithId(cx, w, state_id, init) ==
    LET i == FindId(cx.states, state_id)
    IN IF i # 0
       THEN LET st == cx.states[i]
                cx1 == [cx EXCEPT !.state_index = @ + 1]
            IN IF st.value.ty # init.ty
               THEN [s |-> cx1, w |-> Panic(w, "State value type mismatch."), h |-> NoHandle]
               ELSE [s |-> cx1, h |-> ToState(st),
                     w |-> Ev(w, [e |-> "hook", n |-> cx.id, id |-> st.id,
                                  changed |-> st.changed, value |-> st.value,
                                  created |-> FALSE])]
       ELSE LET st == [id |-> state_id, changed |-> "Changed", value |-> init]
            IN [s |-> [cx EXCEPT !.states = Append(@, st), !.state_index = @ + 1],
                h |-> ToState(st),
                w |-> Ev(w, [e |-> "hook", n |-> cx.id, id |-> st.id, changed |-> st.changed,
                             value |-> st.value, created |-> TRUE])]

\* Scope::set_state / set_state_with_id (flag TRUE) and set_state_unchanged
\* (flag FALSE).  Result: [s, w]
\* a faulty write: every write flags the slot
WriteStateAlways(cx, w, state_id, value, flag) ==
    LET i == FindId(cx.states, state_id)
    IN IF i = 0 THEN [s |-> cx, w |-> Panic(w, "State not found.")]
       ELSE IF cx.states[i].value.ty # value.ty
            THEN [s |-> cx, w |-> Panic(w, "State value type mismatch.")]
            ELSE [s |-> [cx EXCEPT !.states[i].value = value,
                                   !.states[i].changed = "Queued"],
                  w |-> Ev(w, [e |-> "write", n |-> cx.id, id |-> state_id,
                               value |-> value, flag |-> flag,
                               was |-> cx.states[i].changed])]

\* a faulty write: a missing slot is passed over in silence
WriteStateLenient(cx, w, state_id, value, flag) ==
    LET i == FindId(cx.states, state_id)
    IN IF i = 0 THEN [s |-> cx, w |-> w]
       ELSE [s |-> [cx EXCEPT !.states[i].value = value,
                              !.states[i].changed = IF flag THEN "Queued" ELSE @],
             w |-> Ev(w, [e |-> "write", n |-> cx.id, id |-> state_id,
                          value |-> value, flag |-> flag,
                          was |-> cx.states[i].changed])]

WriteState(cx, w, state_id, value, flag) ==
    LET i == FindId(cx.states, state_id)
    IN IF i = 0 THEN [s |-> cx, w |-> Panic(w, "State not found.")]
       ELSE IF cx.states[i].value.ty # value.ty
            THEN [s |-> cx, w |-> Panic(w, "State value type mismatch.")]
            ELSE [s |-> [cx EXCEPT !.states[i].value = value,
                                   !.states[i].changed = IF flag THEN "Queued" ELSE @],
                  w |-> Ev(w, [e |-> "write", n |-> cx.id, id |-> state_id,
                               value |-> value, flag |-> flag,
                               was |-> cx.states[i].changed])]

\* a faulty set_state: the value without the flag
SetStateQuiet(cx, w, h, value) == WriteState(cx, w, h.id, value, FALSE)

SetState(cx, w, h, value) == WriteState(cx, w, h.id, value, TRUE)
SetStateUnchanged(cx, w, h, value) == WriteState(cx, w, h.id, value, FALSE)
SetStateWithId(cx, w, state_id, value) == WriteState(cx, w, state_id, value, TRUE)

\* Scope::run_system
RunSystem(cx, sys) == [cx EXCEPT !.queued_systems = Append(@, sys)]

\* a faulty test: no snapshot counts as changed
HasChangedNever(h) == FALSE

\* Dependency::has_changed for a single handle
HasChanged(h) == h.changed = "Changed"

\* Dependency::has_changed for a tuple of handles
HasChangedTuple(deps) == \E i \in 1..Len(deps) : HasChanged(deps[i])

\* a faulty gate: the system is enqueued by every composition
OnceGateAlways(r, sys) ==
    IF Ok(r.w) THEN [s |-> RunSystem(r.s, sys), w |-> r.w] ELSE [s |-> r.s, w |-> r.w]

\* Scope::use_system_once.  Result: [s, w]
OnceGate(r, sys) ==
    IF Ok(r.w) /\ r.h.changed = "Changed" THEN [s |-> RunSystem(r.s, sys), w |-> r.w]
    ELSE [s |-> r.s, w |-> r.w]

UseSystemOnce(cx, w, sys) == OnceGate(UseState(cx, w, UnitVal), sys)

\* Scope::effect with a callback that only records that it ran.
Effect(cx, w, h) ==
    IF HasChanged(h) THEN [s |-> cx, w |-> Ev(w, [e |-> "mount", n |-> cx.id])]
    ELSE [s |-> cx, w |-> w]

\* Scope::effect with a tuple of dependencies; the event records the call and
\* whether the callback ran
EffectTuple(cx, w, deps) ==
    [s |-> cx,
     w |-> Ev(w, [e |-> "effect", n |-> cx.id,
                  ids |-> [i \in 1..Len(deps) |-> deps[i].id],
                  ran |-> HasChangedTuple(deps)])]

\* Scope::use_mount
MountGate(r) == IF Ok(r.w) THEN Effect(r.s, r.w, r.h) ELSE [s |-> r.s, w |-> r.w]

UseMount(cx, w) == MountGate(UseState(cx, w, UnitVal))

\* Scope::get_state_by_index.  Result: [w, h]
GetStateByIndex(cx, w, index, ty) ==
    IF index >= Len(cx.states) THEN [w |-> Panic(w, "State not found."), h |-> NoHandle]
    ELSE IF cx.states[index + 1].value.ty # ty
         THEN [w |-> Panic(w, "State value type mismatch."), h |-> NoHandle]
         ELSE [w |-> w, h |-> ToState(cx.states[index + 1])]

\* A compose result: [s, w, child]
Ret(r, child) == [s |-> r.s, w |-> r.w, child |-> child]

\* ------------------------------------------------------------ user composables
\* The keyed items a list_app builds from its state (todo example).
ItemsOf(keys) == [i \in 1..Len(keys) |-> Keyed(keys[i], Leaf("A"))]

\* The type of the state a user fn keeps.
TyOf(f) == IF f = "list_app" THEN "Vec<usize>"
           ELSE IF f = "switch_app" THEN "Sel"
           ELSE IF f = "stale_app" THEN "Op"
           ELSE IF f \in {"typed_app", "typed_id_app"} THEN "Ty"
           ELSE IF f \in {"opt_app", "opt_spawn_app"} THEN "bool"
           ELSE "i32"

\* What a user fn returns, from the value of its state.
Build(f, v) ==
    IF f = "list_app" THEN VecOf(ItemsOf(v))
    ELSE IF f = "switch_app" THEN DynCompose(Leaf(v))
    ELSE IF f = "opt_app" THEN OptionOf(v, Leaf("A"))
    ELSE IF f = "spawn_app" THEN SpawnOf(Leaf("A"))
    ELSE IF f = "opt_spawn_app" THEN OptionOf(v, SpawnOf(Leaf("A")))
    ELSE IF f = "typed_app" THEN Typed("T", v)
    ELSE IF f = "typed_id_app" THEN Typed("I", v)
    ELSE IF f = "twin_id_app" THEN TupleOf(<<Typed("I", "i32"), Typed("I", "i32")>>)
    ELSE TupleOf(<<Leaf("A"), Leaf("B")>>)

\* impl Compose for F: the user's function; it keeps its view in one state
\* and returns what the view says.
\* stale_app hands the handle of its state to the child it returns
View(c, h) ==
    IF c.f = "stale_app" THEN OptionOf(h.value.v # "none", Holder(h.value.v, h))
    ELSE Build(c.f, h.value.v)

FnReturn(c, r) == Ret(r, IF Ok(r.w) THEN View(c, r.h) ELSE Unit)

FnCompose(c, cx, w) == FnReturn(c, UseState(cx, w, Val(TyOf(c.f), c.init)))

\* A user struct implementing Compose.
\*   "A": let count = cx.use_state(0); cx.use_mount(..);
\*   "B": let n = cx.use_state(0); let m = cx.use_state(0);
\*        if *n < StepCap { cx.set_state(&n, *n + 1) }
\*        cx.effect(.., (&m, &n));
\*   "set":       let n = cx.use_state(0); cx.set_state(&self.held, ..);
\*   "unchanged": let n = cx.use_state(0); cx.set_state_unchanged(&self.held, ..);
\*   "with_id":   let n = cx.use_state(0); cx.set_state_with_id(ID, 0);
\*   "T":         let n = cx.use_state(self.of.default());
\*   "I":         let n = cx.use_state(0); cx.use_state_with_id(ID, self.of.default());
\* what the caller of set_state holds after the call: the handle it passed
\* (still the snapshot use_state returned) and the value it wrote
Noted(r, h, value) ==
    [s |-> r.s,
     w |-> IF Ok(r.w)
           THEN Ev(r.w, [e |-> "set_state", n |-> r.s.id, id |-> h.id, handle |-> h,
                         value |-> value])
           ELSE r.w]

LeafEffect(r, deps) ==
    IF ~Ok(r.w) THEN Ret(r, Unit) ELSE Ret(EffectTuple(r.s, r.w, deps), Unit)

LeafStep(r, n) ==
    IF ~Ok(r.w) THEN Ret(r, Unit)
    ELSE IF n.value.v < StepCap
         THEN LeafEffect(Noted(SetState(r.s, r.w, n, Val("i32", n.value.v + 1)), n,
                               Val("i32", n.value.v + 1)),
                         <<r.h, n>>)
         ELSE LeafEffect(r, <<r.h, n>>)

\* T::default() of the state types of Typed
DefaultOf(ty) == IF ty = "bool" THEN Val(ty, FALSE) ELSE Val(ty, 0)

\* const ID: TypedStateId<T> = TypedStateId::new(0)
ManualId == Manual(0)

LeafBody(c, r) ==
    IF ~Ok(r.w) THEN Ret(r, Unit)
    ELSE IF c.ty = "A" THEN Ret(UseMount(r.s, r.w), Unit)
    ELSE IF c.ty = "B" THEN LeafStep(UseState(r.s, r.w, Val("i32", 0)), r.h)
    ELSE IF c.ty = "set" THEN Ret(SetState(r.s, r.w, c.held, c.held.value), Unit)
    ELSE IF c.ty = "unchanged"
         THEN Ret(SetStateUnchanged(r.s, r.w, c.held, c.held.value), Unit)
    ELSE IF c.ty = "with_id" THEN Ret(SetStateWithId(r.s, r.w, ManualId, Val("i32", 0)), Unit)
    ELSE IF c.ty = "I" THEN Ret(UseStateWithId(r.s, r.w, ManualId, DefaultOf(c.of)), Unit)
    ELSE Ret(r, Unit)

\* the initial value of the first use_state of a user struct
LeafInit(c) == IF c.ty = "T" THEN DefaultOf(c.of) ELSE Val("i32", 0)

LeafCompose(c, cx, w) == LeafBody(c, UseState(cx, w, LeafInit(c)))

\* impl Compose for Spawn<B>: four states, the spawn system (once), the two
\* set_state_unchanged calls; returns modifier.children
SetEntity(cx, entity) == IF entity # <<>> THEN [cx EXCEPT !.entity = entity] ELSE cx

Spawn7(c, r) == Ret(r, IF Ok(r.w) THEN c.children ELSE Unit)
Spawn6(c, r, updater, observers) ==
    IF ~Ok(r.w) THEN Ret(r, Unit)
    ELSE Spawn7(c, SetStateUnchanged(r.s, r.w, updater, Val("Box<dyn Fn>", <<observers.id>>)))
Spawn5(c, r, should_update, updater, observers) ==
    IF ~Ok(r.w) THEN Ret(r, Unit)
    ELSE Spawn6(c, SetStateUnchanged(r.s, r.w, should_update, Val("bool", TRUE)),
                updater, observers)
Spawn4(c, r, entity, should_update, updater) ==
    IF ~Ok(r.w) THEN Ret(r, Unit)
    ELSE Spawn5(c, UseSystemOnce(SetEntity(r.s, entity.value.v), r.w,
                                 [sys |-> "spawn", scope_id |-> r.s.id, entity |-> entity.id]),
                should_update, updater, r.h)
Spawn3(c, r, entity, should_update) ==
    IF ~Ok(r.w) THEN Ret(r, Unit)
    ELSE Spawn4(c, UseState(r.s, r.w, Val("Vec<Entity>", <<>>)), entity, should_update, r.h)
Spawn2(c, r, entity) ==
    IF ~Ok(r.w) THEN Ret(r, Unit)
    ELSE Spawn3(c, UseState(r.s, r.w, Val("Box<dyn Fn>", <<>>)), entity, r.h)
Spawn1(c, r) ==
    IF ~Ok(r.w) THEN Ret(r, Unit)
    ELSE Spawn2(c, UseState(r.s, r.w, Val("bool", TRUE)), r.h)

SpawnCompose(c, cx, w) == Spawn1(c, UseState(cx, w, Val("Option<Entity>", <<>>)))

\* Spawn::decompose.  Result: [s, w]
SpawnDespawn(cx, g) ==
    IF Ok(g.w) /\ g.h.value.v # <<>>
    THEN UseSystemOnce(cx, g.w, [sys |-> "despawn", entity |-> g.h.value.v[1]])
    ELSE [s |-> cx, w |-> g.w]

SpawnDecompose(cx, w) == SpawnDespawn(cx, GetStateByIndex(cx, w, 0, "Option<Entity>"))

\* Compose::ignore_children
IgnoreChildren(c) == c.kind \in {"Unit", "Vec", "Tuple", "Dyn", "Keyed"}

Promote(states) ==
    [i \in 1..Len(states) |->
        IF states[i].changed = "Queued" THEN [states[i] EXCEPT !.changed = "Changed"]
        ELSE states[i]]

\* a faulty second loop: no flag is reset
DemoteNone(states) == states

Demote(states) ==
    [i \in 1..Len(states) |->
        IF states[i].changed = "Changed" THEN [states[i] EXCEPT !.changed = "Unchanged"]
        ELSE states[i]]

Flags(states) == [i \in 1..Len(states) |-> states[i].changed]

HasDuplicate(keys) == \E i, j \in 1..Len(keys) : i < j /\ keys[i] = keys[j]

KeysOf(items) == [i \in 1..Len(items) |-> items[i].key]

\* ------------------------------------------------------------ recomposition
RECURSIVE RecomposeScope(_, _, _), AfterCompose(_, _), ReconcileChild(_, _, _, _),
          Compose(_, _, _), VecCompose(_, _, _), VecBody(_, _),
          VecLoop(_, _, _, _, _, _), VecExisting(_, _, _, _, _, _, _),
          VecFresh(_, _, _, _, _, _), TupleLoop(_, _, _, _), TupleNext(_, _, _, _),
          TuplePush(_, _, _, _), DynComposeBody(_, _, _), DynBody(_, _),
          CreateNewScope(_, _, _, _), CreatePush(_, _, _, _)

\* a faulty counter: the id is given out and the counter stays
FreshStale(composer, index, w) ==
    [s |-> NewScope(composer, index, w.uid), w |-> Ev(w, [e |-> "new", n |-> w.uid])]

\* Scope::new together with the unique_id() it draws.  Result: [s, w]
Fresh(composer, index, w) ==
    [s |-> NewScope(composer, index, w.uid),
     w |-> Ev([w EXCEPT !.uid = @ + 1], [e |-> "new", n |-> w.uid])]

\* children[j] = the recomposed scope
PutChild(cx, j, r) == [s |-> [cx EXCEPT !.children[j] = r.s], w |-> r.w]

\* children.push(scope); a panic inside the child's recomposition unwinds
\* before the push
PushChild(cx, r) ==
    IF Ok(r.w) THEN [s |-> [cx EXCEPT !.children = Append(@, r.s)], w |-> r.w]
    ELSE [s |-> cx, w |-> r.w]

\* the first loop of recompose_scope (with state_index = 0)
Begin(scope) == [scope EXCEPT !.state_index = 0, !.states = Promote(@)]

\* a faulty recompose_scope: the second loop is left out
FinishKeep(scope) == scope

\* the second loop of recompose_scope
Finish(scope) == [scope EXCEPT !.states = Demote(@)]

\* AnyCompose::recompose_scope.  Result: [s, w]
RecomposeScope(c, scope, w) ==
    AfterCompose(c, Compose(c, Begin(scope),
                            Ev(w, [e |-> "begin", n |-> scope.id, ty |-> TypeIdOf(c),
                                   before |-> Flags(scope.states),
                                   flags |-> Flags(Begin(scope).states)])))

AfterCompose(c, r) ==
    IF ~Ok(r.w) THEN [s |-> r.s, w |-> r.w]
    ELSE ReconcileChild(c, r.child, Finish(r.s),
                        Ev(r.w, [e |-> "end", n |-> r.s.id, before |-> Flags(r.s.states),
                                 flags |-> Flags(Finish(r.s).states)]))

\* a faulty reconciliation: a new child is made by every pass
ReconcileChildPush(c, child, scope, w) ==
    IF IgnoreChildren(c) THEN [s |-> scope, w |-> w]
    ELSE PushChild(scope,
                   RecomposeScope(child, NewScope(child, 0, w.uid), Fresh(child, 0, w).w))

ReconcileChild(c, child, scope, w) ==
    IF IgnoreChildren(c) THEN [s |-> scope, w |-> w]
    ELSE IF scope.children # <<>>
         THEN PutChild(scope, 1,
                       RecomposeScope(child, [scope.children[1] EXCEPT !.composer = child], w))
         ELSE PushChild(scope,
                        RecomposeScope(child, NewScope(child, 0, w.uid), Fresh(child, 0, w).w))

\* a faulty Option: None composes its last value as well
OptionReturnSticky(c) == DynCompose(c.inner)

\* impl Compose for Option<C>: Some(inner) => DynCompose::new(inner.clone()),
\* None => DynCompose::new(())
OptionReturn(c) == IF c.some THEN DynCompose(c.inner) ELSE DynCompose(Unit)

\* Compose::compose, by implementation.  Result: [s, w, child]
Compose(c, cx, w) ==
    IF c.kind = "Unit" THEN [s |-> cx, w |-> w, child |-> Unit]
    ELSE IF c.kind = "Option"
         THEN [s |-> cx, w |-> w, child |-> OptionReturn(c)]
    ELSE IF c.kind = "Fn" THEN FnCompose(c, cx, w)
    ELSE IF c.kind = "Leaf" THEN LeafCompose(c, cx, w)
    ELSE IF c.kind = "Spawn" THEN SpawnCompose(c, cx, w)
    ELSE IF c.kind = "Dyn" THEN Ret(DynComposeBody(c, cx, w), Unit)
    ELSE IF c.kind = "Keyed" THEN Ret(DynComposeBody(c.compose, cx, w), Unit)
    ELSE IF c.kind = "Tuple" THEN Ret(TupleLoop(c.items, 1, cx, w), Unit)
    ELSE VecCompose(c, cx, w)

\* ---- impl Compose for Vec<K>
\* the scope of children whose id is scope_id, as a position (0: none)
ChildById(cx, scope_id) == FindId(cx.children, scope_id)

\* a faulty lookup: no key is ever found
LookupNone(cx, scope_ids, key) == 0

\* scope_ids.get(&key).and_then(|id| cx.children.iter_mut().find(..))
Lookup(cx, scope_ids, key) ==
    IF key \in DOMAIN scope_ids THEN ChildById(cx, scope_ids[key]) ELSE 0

\* a faulty reuse: the position hint is left as it was
ReindexedStale(scope, index, composer) == [scope EXCEPT !.composer = composer]

\* scope.index = index; scope.composer = Arc::new(key_compose.clone())
Reindexed(scope, index, composer) == [scope EXCEPT !.index = index, !.composer = composer]

\* the first loop.  Result: [s, w, m]  (m: modified_scope_ids)
VecLoop(items, i, scope_ids, cx, w, modified) ==
    IF i > Len(items) \/ ~Ok(w) THEN [s |-> cx, w |-> w, m |-> modified]
    ELSE IF Lookup(cx, scope_ids, items[i].key) # 0
         THEN VecExisting(items, i, scope_ids, cx, modified,
                          Lookup(cx, scope_ids, items[i].key),
                          RecomposeScope(items[i],
                              Reindexed(cx.children[Lookup(cx, scope_ids, items[i].key)],
                                        i - 1, items[i]), w))
         ELSE VecFresh(items, i, scope_ids, cx, modified,
                       RecomposeScope(items[i], NewScope(items[i], i - 1, w.uid),
                                      Fresh(items[i], i - 1, w).w))

VecExisting(items, i, scope_ids, cx, modified, j, r) ==
    VecLoop(items, i + 1, scope_ids, [cx EXCEPT !.children[j] = r.s], r.w, modified)

VecFresh(items, i, scope_ids, cx, modified, r) ==
    IF ~Ok(r.w) THEN [s |-> cx, w |-> r.w, m |-> modified]
    ELSE VecLoop(items, i + 1, scope_ids, [cx EXCEPT !.children = Append(@, r.s)], r.w,
                 (items[i].key :> r.s.id) @@ modified)

\* the second loop: keys no longer in the input leave the map, their scopes
\* are flagged
\* a faulty second loop: no key is taken for removed
RemovedNone(modified, keys) == {}

Removed(modified, keys) == {k \in DOMAIN modified : k \notin SeqToSet(keys)}

FlagRemoved(cx, modified, keys) ==
    [cx EXCEPT !.children =
        [j \in 1..Len(cx.children) |->
            IF \E k \in Removed(modified, keys) : modified[k] = cx.children[j].id
            THEN [cx.children[j] EXCEPT !.will_decompose = TRUE]
            ELSE cx.children[j]]]

\* a faulty second loop: the removed keys stay in the map
RemainingAll(modified, keys) == modified

\* modified_scope_ids.remove(key) for the keys that are not in the input
Remaining(modified, keys) ==
    [k \in DOMAIN modified \ Removed(modified, keys) |-> modified[k]]

\* a faulty end: the children are flagged and the map is stored as the
\* first loop left it
VecFinishKeepMap(c, h, l) ==
    IF ~Ok(l.w) THEN [s |-> l.s, w |-> l.w, child |-> Unit]
    ELSE Ret(SetStateUnchanged(FlagRemoved(l.s, l.m, KeysOf(c.items)), l.w, h,
                               Val("HashMap", l.m)), Unit)

\* the second loop and the set_state_unchanged that stores the map
VecFinish(c, h, l) ==
    IF ~Ok(l.w) THEN [s |-> l.s, w |-> l.w, child |-> Unit]
    ELSE Ret(SetStateUnchanged(FlagRemoved(l.s, l.m, KeysOf(c.items)), l.w, h,
                               Val("HashMap", Remaining(l.m, KeysOf(c.items)))), Unit)

\* a faulty order: the duplicate check after the first loop
VecLate(c, h, l) ==
    IF ~Ok(l.w) THEN [s |-> l.s, w |-> l.w, child |-> Unit]
    ELSE IF HasDuplicate(KeysOf(c.items))
         THEN [s |-> l.s, w |-> Panic(l.w, "Duplicate key found"), child |-> Unit]
         ELSE VecFinish(c, h, l)

VecBodyLate(c, r) ==
    IF ~Ok(r.w) THEN Ret(r, Unit)
    ELSE VecLate(c, r.h, VecLoop(c.items, 1, r.h.value.v, r.s, r.w, r.h.value.v))

VecBody(c, r) ==
    IF ~Ok(r.w) THEN Ret(r, Unit)
    ELSE IF HasDuplicate(KeysOf(c.items))
         THEN [s |-> r.s, w |-> Panic(r.w, "Duplicate key found"), child |-> Unit]
         ELSE VecFinish(c, r.h, VecLoop(c.items, 1, r.h.value.v, r.s, r.w, r.h.value.v))

VecCompose(c, cx, w) == VecBody(c, UseState(cx, w, Val("HashMap", <<>>)))

\* ---- impl Compose for tuples
TupleNext(items, i, cx, r) ==
    TupleLoop(items, i + 1, [cx EXCEPT !.children[i] = r.s], r.w)

TuplePush(items, i, cx, r) ==
    IF ~Ok(r.w) THEN [s |-> cx, w |-> r.w]
    ELSE TupleLoop(items, i + 1, [cx EXCEPT !.children = Append(@, r.s)], r.w)

\* a faulty loop: an existing element gets its composer and is not recomposed
TupleLoopLazy(items, i, cx, w) ==
    IF i > Len(items) \/ ~Ok(w) THEN [s |-> cx, w |-> w]
    ELSE IF i <= Len(cx.children)
         THEN TupleLoop(items, i + 1, [cx EXCEPT !.children[i].composer = items[i]], w)
         ELSE TuplePush(items, i, cx,
                        RecomposeScope(items[i], NewScope(items[i], i - 1, w.uid),
                                       Fresh(items[i], i - 1, w).w))

TupleLoop(items, i, cx, w) ==
    IF i > Len(items) \/ ~Ok(w) THEN [s |-> cx, w |-> w]
    ELSE IF i <= Len(cx.children)
         THEN TupleNext(items, i, cx,
                        RecomposeScope(items[i], [cx.children[i] EXCEPT !.composer = items[i]], w))
         ELSE TuplePush(items, i, cx,
                        RecomposeScope(items[i], NewScope(items[i], i - 1, w.uid),
                                       Fresh(items[i], i - 1, w).w))

\* ---- impl Compose for DynCompose
\* a faulty closure: the new type is not stored
CreatePushUntagged(d, cx, h, r) ==
    IF ~Ok(r.w) THEN [s |-> cx, w |-> r.w]
    ELSE [s |-> [cx EXCEPT !.children = Append(@, r.s)], w |-> r.w]

CreatePush(d, cx, h, r) ==
    IF ~Ok(r.w) THEN [s |-> cx, w |-> r.w]
    ELSE SetState([cx EXCEPT !.children = Append(@, r.s)], r.w, h, Val("TypeId", d.type_id))

\* the create_new_scope closure
CreateNewScope(d, cx, w, h) ==
    CreatePush(d, cx, h,
               RecomposeScope(d.compose, NewScope(d.compose, 0, w.uid),
                              Fresh(d.compose, 0, w).w))

\* a faulty remount: the existing child is not flagged
FlagFirstNot(cx) == cx

\* existing_scope.will_decompose = true
FlagFirst(cx) == [cx EXCEPT !.children[1].will_decompose = TRUE]

\* a faulty compose: an existing child is always remounted
DynBodyAlways(d, r) ==
    IF ~Ok(r.w) THEN [s |-> r.s, w |-> r.w]
    ELSE IF r.s.children # <<>> THEN CreateNewScope(d, FlagFirst(r.s), r.w, r.h)
    ELSE CreateNewScope(d, r.s, r.w, r.h)

DynBody(d, r) ==
    IF ~Ok(r.w) THEN [s |-> r.s, w |-> r.w]
    ELSE IF r.s.children # <<>>
         THEN IF r.h.value.v # d.type_id
              THEN CreateNewScope(d, FlagFirst(r.s), r.w, r.h)
              ELSE PutChild(r.s, 1,
                            RecomposeScope(d.compose,
                                           [r.s.children[1] EXCEPT !.composer = d.compose],
                                           r.w))
         ELSE CreateNewScope(d, r.s, r.w, r.h)

\* a faulty compose: the tag slot is left Queued by every pass
MarkTag(r) == IF Ok(r.w) THEN [r EXCEPT !.s.states[1].changed = "Queued"] ELSE r

DynComposeBodyMarking(d, cx, w) == MarkTag(DynBody(d, UseState(cx, w, Val("TypeId", d.type_id))))

DynComposeBody(d, cx, w) == DynBody(d, UseState(cx, w, Val("TypeId", d.type_id)))

\* Compose::decompose, by implementation.  Result: [s, w]
DecomposeHook(c, cx, w) ==
    IF c.kind = "Keyed" THEN DynComposeBody(c.compose, cx, w)
    ELSE IF c.kind = "Spawn" THEN SpawnDecompose(cx, w)
    ELSE [s |-> cx, w |-> w]

\* AnyCompose::decompose_scope
DecomposeScope(scope, w) ==
    DecomposeHook(scope.composer, scope,
                  Ev(w, [e |-> "decompose", n |-> scope.id, ty |-> TypeIdOf(scope.composer)]))

\* ------------------------------------------------------------ systems
RECURSIVE InitialComposeRoots(_, _, _), InitialNext(_, _, _)

\* Root.scope = Some(scope) after the root's first composition
InitialNext(rs, i, r) ==
    IF ~Ok(r.w) THEN [rs |-> rs, w |-> r.w]
    ELSE InitialComposeRoots([rs EXCEPT ![i].scope = <<r.s>>, ![i].added = FALSE], i + 1, r.w)

\* fn initial_compose.  Result: [rs, w]
InitialComposeRoots(rs, i, w) ==
    IF i > Len(rs) \/ ~Ok(w) THEN [rs |-> rs, w |-> w]
    ELSE IF rs[i].added
         THEN InitialNext(rs, i,
                  RecomposeScope(rs[i].compose,
                                 AsRootScope(rs[i].entity, rs[i].compose, w.uid),
                                 Fresh(rs[i].compose, 0, w).w))
         ELSE InitialComposeRoots(rs, i + 1, w)

\* fn run_queued_systems, the collecting traversal (pre-order).
RECURSIVE CollectSystems(_), CollectChildren(_, _)
CollectChildren(children, i) ==
    IF i > Len(children) THEN <<>>
    ELSE CollectSystems(children[i]) \o CollectChildren(children, i + 1)

\* a faulty traversal: the queues of flagged nodes are passed over
CollectSystemsLive(scope) ==
    IF scope.will_decompose THEN <<>>
    ELSE scope.queued_systems \o CollectChildren(scope.children, 1)

CollectSystems(scope) == scope.queued_systems \o CollectChildren(scope.children, 1)

RECURSIVE ClearSystems(_)
\* a faulty clearing: the queues keep the systems that were run
ClearSystemsNot(scope) == scope

ClearSystems(scope) ==
    [scope EXCEPT !.queued_systems = <<>>,
                  !.children = [i \in 1..Len(scope.children) |-> ClearSystems(scope.children[i])]]

RECURSIVE CollectRoots(_, _)
CollectRoots(rs, i) ==
    IF i > Len(rs) THEN <<>>
    ELSE (IF rs[i].scope = <<>> THEN <<>> ELSE CollectSystems(rs[i].scope[1]))
         \o CollectRoots(rs, i + 1)

\* fn drop_decomposed_scopes: children.retain(|s| !s.will_decompose)
RECURSIVE DropDecomposed(_)
\* a faulty filter: every child is retained
KeepAll(child) == TRUE

Keep(child) == ~child.will_decompose

\* a faulty walk: only the children of the root node are filtered
DropDecomposedShallow(scope) == [scope EXCEPT !.children = SelectSeq(scope.children, Keep)]

DropDecomposed(scope) ==
    [scope EXCEPT !.children =
        [i \in 1..Len(SelectSeq(scope.children, Keep)) |->
            DropDecomposed(SelectSeq(scope.children, Keep)[i])]]

\* StateSetterAction applied to the stored value: (value, should_change)
ModifyPanics(a, old) == a.kind = "Modify" /\ old.ty # a.arg.ty

\* a faulty set_neq: the flag is raised whatever the stored value
ActionResultAlways(a, old) ==
    IF a.kind = "Set" THEN [value |-> a.value, flag |-> a.flag]
    ELSE IF a.f = "neq"
         THEN [value |-> a.arg, flag |-> TRUE]
         ELSE [value |-> Val(old.ty, (old.v + a.arg.v) % (MaxInt + 1)), flag |-> a.flag]

ActionResult(a, old) ==
    IF a.kind = "Set" THEN [value |-> a.value, flag |-> a.flag]
    ELSE IF a.f = "neq"
         THEN [value |-> IF old # a.arg THEN a.arg ELSE old, flag |-> old # a.arg]
         ELSE [value |-> Val(old.ty, (old.v + a.arg.v) % (MaxInt + 1)), flag |-> a.flag]

\* a faulty removal: the action stays in the queue
WithoutKept(q, id) == q

\* queued.remove(&id)
Without(q, id) == [k \in DOMAIN q \ {id} |-> q[k]]

\* a faulty store: the value without the flag
StoredUnflagged(st, res) == [st EXCEPT !.value = res.value]

\* state.value = value; if should_change { state.changed = Queued }
Stored(st, res) ==
    [st EXCEPT !.value = res.value, !.changed = IF res.flag THEN "Queued" ELSE @]

\* fn set_states.  Results: [s, q, w]
RECURSIVE SetStatesSlots(_, _, _, _), SetStatesTree(_, _, _), SetStatesChildren(_, _),
          SetStatesRoots(_, _, _, _), SetStatesRootPut(_, _, _)

SetStatesSlots(scope, i, q, w) ==
    IF i > Len(scope.states) \/ ~Ok(w) THEN [s |-> scope, q |-> q, w |-> w]
    ELSE IF scope.states[i].id \notin DOMAIN q THEN SetStatesSlots(scope, i + 1, q, w)
    ELSE IF ModifyPanics(q[scope.states[i].id], scope.states[i].value)
         THEN [s |-> scope, q |-> Without(q, scope.states[i].id),
               w |-> Panic(w, "called Option::unwrap on a None value")]
         ELSE SetStatesSlots(
                  [scope EXCEPT !.states[i] =
                      Stored(@, ActionResult(q[scope.states[i].id], scope.states[i].value))],
                  i + 1, Without(q, scope.states[i].id),
                  Ev(w, [e |-> "apply", n |-> scope.id, id |-> scope.states[i].id,
                         a |-> q[scope.states[i].id], was |-> scope.states[i],
                         res |-> ActionResult(q[scope.states[i].id], scope.states[i].value)]))

\* children[i] = the visited child; the queue and the log go on
SetStatesPut(r, i, rc) ==
    [s |-> [r.s EXCEPT !.children[i] = rc.s], q |-> rc.q, w |-> rc.w]

SetStatesChildren(r, i) ==
    IF i > Len(r.s.children) \/ ~Ok(r.w) THEN r
    ELSE SetStatesChildren(SetStatesPut(r, i, SetStatesTree(r.s.children[i], r.q, r.w)),
                           i + 1)

SetStatesTree(scope, q, w) == SetStatesChildren(SetStatesSlots(scope, 1, q, w), 1)

SetStatesRootPut(rs, i, r) ==
    SetStatesRoots([rs EXCEPT ![i].scope = <<r.s>>], i + 1, r.q, r.w)

SetStatesRoots(rs, i, q, w) ==
    IF i > Len(rs) \/ ~Ok(w) THEN [rs |-> rs, q |-> q, w |-> w]
    ELSE IF rs[i].scope = <<>> THEN SetStatesRoots(rs, i + 1, q, w)
    ELSE SetStatesRootPut(rs, i, SetStatesTree(rs[i].scope[1], q, w))

\* fn recompose.  Results: [s, w]
RECURSIVE RecomposeTree(_, _), RecomposeChildren(_, _), RecomposeRoots(_, _, _),
          RecomposeRootPut(_, _, _)

\* a faulty test: every live node counts as queued
IsQueuedAny(scope) == ~scope.will_decompose

\* states.iter().any(|state| matches!(state.changed, Queued)) && !will_decompose
IsQueued(scope) ==
    (\E i \in 1..Len(scope.states) : scope.states[i].changed = "Queued")
    /\ ~scope.will_decompose

RecomposeChildren(r, i) ==
    IF i > Len(r.s.children) \/ ~Ok(r.w) THEN r
    ELSE RecomposeChildren(PutChild(r.s, i, RecomposeTree(r.s.children[i], r.w)), i + 1)

\* a faulty traversal: the children of a clean node are not visited
RecomposeTreeShallow(scope, w) ==
    IF IsQueued(scope)
    THEN RecomposeScope(scope.composer, scope, Ev(w, [e |-> "dirty", n |-> scope.id]))
    ELSE [s |-> scope, w |-> w]

RecomposeTree(scope, w) ==
    IF IsQueued(scope)
    THEN RecomposeScope(scope.composer, scope, Ev(w, [e |-> "dirty", n |-> scope.id]))
    ELSE RecomposeChildren([s |-> scope, w |-> w], 1)

RecomposeRootPut(rs, i, r) == RecomposeRoots([rs EXCEPT ![i].scope = <<r.s>>], i + 1, r.w)

RecomposeRoots(rs, i, w) ==
    IF i > Len(rs) \/ ~Ok(w) THEN [rs |-> rs, w |-> w]
    ELSE IF rs[i].scope = <<>> THEN RecomposeRoots(rs, i + 1, w)
    ELSE RecomposeRootPut(rs, i, RecomposeTree(rs[i].scope[1], w))

\* fn decompose.  Results: [s, w]
RECURSIVE DecomposeTree(_, _), DecomposeChildren(_, _), DecomposeRoots(_, _, _),
          DecomposeRootPut(_, _, _)

\* a faulty cascade: the children are not flagged
FlagChildrenNot(r) == r

\* for child in scope.children.iter_mut() { child.will_decompose = true }
FlagChildren(r) ==
    IF ~Ok(r.w) THEN r
    ELSE [r EXCEPT !.s.children =
             [i \in 1..Len(r.s.children) |-> [r.s.children[i] EXCEPT !.will_decompose = TRUE]]]

DecomposeChildren(r, i) ==
    IF i > Len(r.s.children) \/ ~Ok(r.w) THEN r
    ELSE DecomposeChildren(PutChild(r.s, i, DecomposeTree(r.s.children[i], r.w)), i + 1)

DecomposeTree(scope, w) ==
    IF scope.will_decompose
    THEN DecomposeChildren(FlagChildren(DecomposeScope(scope, w)), 1)
    ELSE DecomposeChildren([s |-> scope, w |-> w], 1)

DecomposeRootPut(rs, i, r) == DecomposeRoots([rs EXCEPT ![i].scope = <<r.s>>], i + 1, r.w)

DecomposeRoots(rs, i, w) ==
    IF i > Len(rs) \/ ~Ok(w) THEN [rs |-> rs, w |-> w]
    ELSE IF rs[i].scope = <<>> THEN DecomposeRoots(rs, i + 1, w)
    ELSE DecomposeRootPut(rs, i, DecomposeTree(rs[i].scope[1], w))

\* Root's on_remove / on_replace hook: every scope of the tree is decomposed
RECURSIVE DecomposeAll(_, _), DecomposeAllChildren(_, _)

DecomposeAllChildren(r, i) ==
    IF i > Len(r.s.children) \/ ~Ok(r.w) THEN r
    ELSE DecomposeAllChildren(PutChild(r.s, i, DecomposeAll(r.s.children[i], r.w)), i + 1)

\* a faulty walk: only the root node's hook is invoked
DecomposeAllNone(scope, w) == DecomposeScope(scope, w)

DecomposeAll(scope, w) == DecomposeAllChildren(DecomposeScope(scope, w), 1)

decompose_root(root, w) ==
    IF root.scope = <<>> THEN [s |-> <<>>, w |-> w] ELSE DecomposeAll(root.scope[1], w)

\* The queued systems, run one after the other against the world
\* e = [q, entities, next_entity, w].
SetAction(value, flag) == [kind |-> "Set", value |-> value, flag |-> flag]
ModifyAction(f, arg, flag) == [kind |-> "Modify", f |-> f, arg |-> arg, flag |-> flag]

\* a faulty insert: an action already queued for the id is kept
InsertKeep(q, id, a) == IF id \in DOMAIN q THEN q ELSE (id :> a) @@ q

\* queued.insert(id, action)
Insert(q, id, a) == (id :> a) @@ q

RunSys(sys, e) ==
    IF sys.sys = "spawn"
    THEN [q |-> Insert(e.q, sys.entity,
                       SetAction(Val("Option<Entity>", <<e.next_entity>>), TRUE)),
          entities |-> e.entities \cup {[entity |-> e.next_entity, scope_id |-> sys.scope_id]},
          next_entity |-> e.next_entity + 1,
          w |-> Ev(e.w, [e |-> "run", sys |-> sys])]
    ELSE [q |-> e.q,
          entities |-> {x \in e.entities : x.entity # sys.entity},
          next_entity |-> e.next_entity,
          w |-> Ev(e.w, [e |-> "run", sys |-> sys])]

\* the StateId a system calls SetState for (the spawn system: state.set(&entity, ..))
SubmittedBy(sys) == IF sys.sys = "spawn" THEN {sys.entity} ELSE {}

\* the StateIds the systems run in a log called SetState for
SubmittedIn(l) == UNION {IF l[i].e = "run" THEN SubmittedBy(l[i].sys) ELSE {} : i \in 1..Len(l)}

RECURSIVE RunAll(_, _, _)
RunAll(systems, i, e) ==
    IF i > Len(systems) THEN e ELSE RunAll(systems, i + 1, RunSys(systems[i], e))

\* fn update_spawn_composables.  Results: [s, q, w]
RECURSIVE UpdateSpawnTree(_, _, _, _), UpdateSpawnChildren(_, _, _)

IsSpawnComposable(scope, ents) == \E x \in ents : x.scope_id = scope.id

WithQueue(r, q) == [s |-> r.s, q |-> q, w |-> r.w]

\* bundle_updater(..) then scope.set_state_unchanged(&should_update, false)
UpdateBundle(scope, q, should_update, g) ==
    IF ~Ok(g.w) THEN [s |-> scope, q |-> q, w |-> g.w]
    ELSE WithQueue(SetStateUnchanged(scope, g.w, should_update, Val("bool", FALSE)),
                   IF g.h.value.v = <<>> THEN q
                   ELSE Insert(q, g.h.value.v[1], SetAction(Val("Vec<Entity>", <<>>), FALSE)))

ShouldUpdate(scope, q, g) ==
    IF ~Ok(g.w) THEN [s |-> scope, q |-> q, w |-> g.w]
    ELSE IF g.h.value.v
         THEN UpdateBundle(scope, q, g.h, GetStateByIndex(scope, g.w, 2, "Box<dyn Fn>"))
         ELSE [s |-> scope, q |-> q, w |-> g.w]

UpdateSpawnScope(scope, ents, q, w) ==
    IF IsSpawnComposable(scope, ents)
    THEN ShouldUpdate(scope, q, GetStateByIndex(scope, w, 1, "bool"))
    ELSE [s |-> scope, q |-> q, w |-> w]

\* scopes.extend(children) on a stack: the last child is visited first
UpdateSpawnChildren(r, ents, i) ==
    IF i < 1 \/ ~Ok(r.w) THEN r
    ELSE UpdateSpawnChildren(
             SetStatesPut(r, i, UpdateSpawnTree(r.s.children[i], ents, r.q, r.w)), ents, i - 1)

UpdateSpawnTree(scope, ents, q, w) ==
    UpdateSpawnChildren(UpdateSpawnScope(scope, ents, q, w), ents, Len(scope.children))

RECURSIVE UpdateSpawnRoots(_, _, _, _, _), UpdateSpawnRootPut(_, _, _, _)
UpdateSpawnRootPut(rs, i, ents, r) ==
    UpdateSpawnRoots([rs EXCEPT ![i].scope = <<r.s>>], i + 1, ents, r.q, r.w)

UpdateSpawnRoots(rs, i, ents, q, w) ==
    IF i > Len(rs) \/ ~Ok(w) THEN [rs |-> rs, q |-> q, w |-> w]
    ELSE IF rs[i].scope = <<>> THEN UpdateSpawnRoots(rs, i + 1, ents, q, w)
    ELSE UpdateSpawnRootPut(rs, i, ents, UpdateSpawnTree(rs[i].scope[1], ents, q, w))

\* ------------------------------------------------------------ inputs
Keys == 0..MaxKey

RECURSIVE SeqsOver(_, _)
SeqsOver(S, n) ==
    IF n = 0 THEN {<<>>}
    ELSE SeqsOver(S, n - 1) \cup {Append(q, x) : q \in SeqsOver(S, n - 1), x \in S}

\* the key lists a view may hold: without repetition, and a few with
KeyLists == {q \in SeqsOver(Keys, MaxKey + 1) : ~HasDuplicate(q)}
DupLists == {<<k, k>> : k \in {0}} \cup {<<0, MaxKey, 0>>}
ListInits == {<<>>, [i \in 1..(MaxKey + 1) |-> i - 1], <<0, 0>>}

Programs == {"list_app", "switch_app", "opt_app", "pair_app", "spawn_app", "opt_spawn_app",
             "stale_app", "typed_app", "typed_id_app", "twin_id_app"}

ValuesOf(ty) ==
    IF ty = "Vec<usize>" THEN KeyLists \cup DupLists
    ELSE IF ty = "Sel" THEN {"A", "B"}
    ELSE IF ty = "bool" THEN BOOLEAN
    ELSE IF ty = "Op" THEN {"none", "set", "unchanged", "with_id"}
    ELSE IF ty = "Ty" THEN {"i32", "bool"}
    ELSE 0..MaxInt

InitsOf(f) ==
    IF f = "list_app" THEN ListInits
    ELSE IF f \in {"switch_app", "opt_app", "opt_spawn_app", "stale_app", "typed_app",
                  "typed_id_app"}
         THEN ValuesOf(TyOf(f))
    ELSE {0}

\* what a caller holding a State<T> can submit through SetState
ActionsFor(ty) ==
    IF ty = "i32"
    THEN {SetAction(Val(ty, v), fl) : v \in ValuesOf(ty), fl \in BOOLEAN}
         \cup {ModifyAction("neq", Val(ty, v), TRUE) : v \in ValuesOf(ty)}
         \cup {ModifyAction("add", Val(ty, 1), fl) : fl \in BOOLEAN}
    ELSE {SetAction(Val(ty, v), TRUE) : v \in ValuesOf(ty)}

\* every scope of a tree, and of the world
RECURSIVE ScopesOf(_)
ScopesOf(scope) ==
    {scope} \cup UNION {ScopesOf(scope.children[i]) : i \in 1..Len(scope.children)}

AllScopes(rs) ==
    UNION {IF rs[i].scope = <<>> THEN {} ELSE ScopesOf(rs[i].scope[1]) : i \in 1..Len(rs)}

SlotsOf(scope) == {scope.states[i] : i \in 1..Len(scope.states)}

\* the number of handles a user composable gets from its own use_state calls
UserStates(c) == IF c.kind = "Leaf" /\ c.ty \in {"B", "I"} THEN 2 ELSE 1

\* the states a user composable holds a handle to: those of its own
\* use_state calls, which come first in its slot list
UserSlots(rs) ==
    UNION {{sc.states[i] : i \in {j \in 1..Len(sc.states) : j <= UserStates(sc.composer)}}
           : sc \in {x \in AllScopes(rs) : x.composer.kind \in {"Fn", "Leaf"}}}

\* ------------------------------------------------------------ the chain
\* a faulty chain: recomposition before mutation application
ScheduleSwapped ==
    <<"initial_compose", "run_queued_systems", "drop_decomposed_scopes", "recompose",
      "set_states", "update_spawn_composables", "order_children", "decompose">>

\* a faulty chain: the queued systems run after recomposition
ScheduleLate ==
    <<"initial_compose", "drop_decomposed_scopes", "set_states", "recompose",
      "run_queued_systems", "update_spawn_composables", "order_children", "decompose">>

\* RecomposePlugin::build: the systems of PreUpdate, chained
Schedule ==
    <<"initial_compose", "run_queued_systems", "drop_decomposed_scopes", "set_states",
      "recompose", "update_spawn_composables", "order_children", "decompose">>

\* between two runs of PreUpdate
Idle == phase = 0 /\ panicked = NoPanic

\* the chain is at system name
Runs(name) ==
    /\ panicked = NoPanic
    /\ Schedule[phase + 1] = name
    /\ phase = 0 => tick < horizon

\* the system ran (to its end, or to a panic)
Done(name, w) ==
    /\ uid' = w.uid
    /\ log' = w.log
    /\ panicked' = w.panic
    /\ IF Ok(w)
       THEN /\ phase' = (phase + 1) % Len(Schedule)
            /\ trace' = IF phase = 0 THEN <<name>> ELSE Append(trace, name)
            /\ tick' = IF phase = 0 THEN tick + 1 ELSE tick
       ELSE UNCHANGED <<phase, trace, tick>>

Init ==
    /\ roots = <<>>
    /\ queued = <<>>
    /\ uid = 0
    /\ entities = {}
    /\ next_entity = 0
    /\ phase = 0
    /\ tick = 0
    /\ log = <<>>
    /\ trace = <<>>
    /\ panicked = NoPanic
    /\ submits = 0
    /\ spawned = 0
    /\ progs = Programs
    /\ horizon = MaxTicks
    /\ closure_ids = {}
    /\ seen = <<>>

\* commands.spawn(Root::new(compose))
SpawnRoot ==
    /\ Idle
    /\ spawned < MaxRoots
    /\ \E f \in progs : \E init \in InitsOf(f) :
          roots' = Append(roots, [entity |-> next_entity, compose |-> Fn(f, init),
                                  scope |-> <<>>, added |-> TRUE])
    /\ next_entity' = next_entity + 1
    /\ spawned' = spawned + 1
    /\ log' = <<>>
    /\ UNCHANGED <<queued, uid, entities, phase, tick, trace, panicked, submits, progs, horizon, closure_ids, seen>>

\* the Root component is removed: decompose_root runs, the tree is dropped
RemovedRoot(i, r) ==
    /\ roots' = IF Ok(r.w) THEN [j \in 1..(Len(roots) - 1) |->
                                    IF j < i THEN roots[j] ELSE roots[j + 1]]
                ELSE roots
    /\ uid' = r.w.uid
    /\ log' = r.w.log
    /\ panicked' = r.w.panic

RemoveRoot ==
    /\ Idle
    /\ \E i \in 1..Len(roots) : RemovedRoot(i, decompose_root(roots[i], World(uid)))
    /\ UNCHANGED <<queued, entities, next_entity, phase, tick, trace, submits, spawned, progs, horizon, closure_ids, seen>>

\* a new Root with the same composer is inserted on an entity that has one:
\* decompose_root runs (on_replace), the old tree is dropped with the old
\* component; whether the new component passes the Added<Root> filter of
\* initial_compose is left to the ECS
ReplacedRoot(i, r, root) ==
    /\ roots' = IF Ok(r.w) THEN [roots EXCEPT ![i] = root] ELSE roots
    /\ uid' = r.w.uid
    /\ log' = r.w.log
    /\ panicked' = r.w.panic

ReplaceRoot ==
    /\ Idle
    /\ spawned < MaxRoots + MaxReplaces
    /\ \E i \in 1..Len(roots) : \E added \in BOOLEAN :
          ReplacedRoot(i, decompose_root(roots[i], World(uid)),
                       [entity |-> roots[i].entity, compose |-> roots[i].compose,
                        scope |-> <<>>, added |-> added])
    /\ spawned' = spawned + 1
    /\ UNCHANGED <<queued, entities, next_entity, phase, tick, trace, submits, progs, horizon, closure_ids, seen>>

\* the values read at submission, for the actions still in the queue
Pending(s, q) == [id \in DOMAIN s \cap DOMAIN q |-> s[id]]

\* a system outside the chain calls SetState::{set, set_unchanged, set_neq,
\* modify, modify_unchanged} with a handle of a live state
Submit ==
    /\ Idle
    /\ submits < MaxSubmits
    /\ \E st \in UserSlots(roots) : \E a \in ActionsFor(st.value.ty) :
          /\ queued' = Insert(queued, st.id, a)
          /\ seen' = Insert(Pending(seen, queued), st.id, st.value)
          /\ log' = <<[e |-> "submit", id |-> st.id, a |-> a]>>
    /\ submits' = submits + 1
    /\ UNCHANGED <<roots, uid, entities, next_entity, phase, tick, trace, panicked,
                   spawned, progs, horizon, closure_ids>>

InitialComposeDone(r) == roots' = r.rs /\ Done("initial_compose", r.w)

InitialCompose ==
    /\ Runs("initial_compose")
    /\ InitialComposeDone(InitialComposeRoots(roots, 1, World(uid)))
    /\ UNCHANGED <<queued, entities, next_entity, submits, spawned, progs, horizon, closure_ids, seen>>

RunQueuedDone(e) ==
    /\ queued' = e.q
    /\ closure_ids' = SubmittedIn(e.w.log)
    /\ seen' = [id \in DOMAIN seen \ SubmittedIn(e.w.log) |-> seen[id]]
    /\ entities' = e.entities
    /\ next_entity' = e.next_entity
    /\ Done("run_queued_systems", e.w)

RunQueuedSystems ==
    /\ Runs("run_queued_systems")
    /\ roots' = [i \in 1..Len(roots) |->
                    IF roots[i].scope = <<>> THEN roots[i]
                    ELSE [roots[i] EXCEPT !.scope = <<ClearSystems(roots[i].scope[1])>>]]
    /\ RunQueuedDone(RunAll(CollectRoots(roots, 1), 1,
                            [q |-> queued, entities |-> entities,
                             next_entity |-> next_entity, w |-> World(uid)]))
    /\ UNCHANGED <<submits, spawned, progs, horizon>>

DropDecomposedScopes ==
    /\ Runs("drop_decomposed_scopes")
    /\ roots' = [i \in 1..Len(roots) |->
                    IF roots[i].scope = <<>> THEN roots[i]
                    ELSE [roots[i] EXCEPT !.scope = <<DropDecomposed(roots[i].scope[1])>>]]
    /\ Done("drop_decomposed_scopes", World(uid))
    /\ UNCHANGED <<queued, entities, next_entity, submits, spawned, progs, horizon, closure_ids, seen>>

SetStatesDone(r) == roots' = r.rs /\ queued' = r.q /\ Done("set_states", r.w)

SetStates ==
    /\ Runs("set_states")
    /\ SetStatesDone(SetStatesRoots(roots, 1, queued, World(uid)))
    /\ UNCHANGED <<entities, next_entity, submits, spawned, progs, horizon, closure_ids, seen>>

RecomposeDone(r) == roots' = r.rs /\ Done("recompose", r.w)

Recompose ==
    /\ Runs("recompose")
    /\ RecomposeDone(RecomposeRoots(roots, 1, World(uid)))
    /\ seen' = Pending(seen, queued)
    /\ UNCHANGED <<queued, entities, next_entity, submits, spawned, progs, horizon, closure_ids>>

UpdateSpawnDone(r) == roots' = r.rs /\ queued' = r.q /\ Done("update_spawn_composables", r.w)

UpdateSpawnComposables ==
    /\ Runs("update_spawn_composables")
    /\ UpdateSpawnDone(UpdateSpawnRoots(roots, 1, entities, queued, World(uid)))
    /\ UNCHANGED <<entities, next_entity, submits, spawned, progs, horizon, closure_ids, seen>>

\* fn order_children: re-parents ECS entities by ChildOrder; the scope tree
\* is not an argument of this system
OrderChildren ==
    /\ Runs("order_children")
    /\ Done("order_children", World(uid))
    /\ UNCHANGED <<roots, queued, entities, next_entity, submits, spawned, progs, horizon, closure_ids, seen>>

DecomposeDone(r) == roots' = r.rs /\ Done("decompose", r.w)

Decompose ==
    /\ Runs("decompose")
    /\ DecomposeDone(DecomposeRoots(roots, 1, World(uid)))
    /\ UNCHANGED <<queued, entities, next_entity, submits, spawned, progs, horizon, closure_ids, seen>>

Next ==
    \/ SpawnRoot
    \/ RemoveRoot
    \/ ReplaceRoot
    \/ Submit
    \/ InitialCompose
    \/ RunQueuedSystems
    \/ DropDecomposedScopes
    \/ SetStates
    \/ Recompose
    \/ UpdateSpawnComposables
    \/ OrderChildren
    \/ Decompose

Spec == Init /\ [][Next]_vars

\* ------------------------------------------------------------ an app left alone
\* The programs whose compose functions never call set_state or
\* set_state_with_id, run with one Root from the start, SetState calls from
\* outside only up to LastSubmitTick, and the Root left in place.
QuietPrograms == Programs \ {"pair_app", "stale_app"}

QuietInit ==
    /\ roots = <<>>
    /\ queued = <<>>
    /\ uid = 0
    /\ entities = {}
    /\ next_entity = 0
    /\ phase = 0
    /\ tick = 0
    /\ log = <<>>
    /\ trace = <<>>
    /\ panicked = NoPanic
    /\ submits = 0
    /\ spawned = 0
    /\ progs = QuietPrograms
    /\ horizon = QuietTicks
    /\ closure_ids = {}
    /\ seen = <<>>

SpawnRootAtStart == tick = 0 /\ SpawnRoot

SubmitEarly == tick <= LastSubmitTick /\ Submit

\* one system of the chain of PreUpdate
PreUpdate ==
    \/ InitialCompose
    \/ RunQueuedSystems
    \/ DropDecomposedScopes
    \/ SetStates
    \/ Recompose
    \/ UpdateSpawnComposables
    \/ OrderChildren
    \/ Decompose

QuietNext ==
    \/ SpawnRootAtStart
    \/ SubmitEarly
    \/ InitialCompose
    \/ RunQueuedSystems
    \/ DropDecomposedScopes
    \/ SetStates
    \/ Recompose
    \/ UpdateSpawnComposables
    \/ OrderChildren
    \/ Decompose

\* a system of the chain can run: ENABLED <<PreUpdate>>_vars, written out
\* (every system of the chain is defined on every state in which it is due)
Running == panicked = NoPanic /\ (phase = 0 => tick < horizon)

\* the app runs PreUpdate in every frame, and a run goes through the chain:
\* weak fairness of PreUpdate
FairPreUpdate == []<>~Running \/ []<><<PreUpdate>>_vars

QuietSpec == QuietInit /\ [][QuietNext]_vars /\ FairPreUpdate

\* ------------------------------------------------------------ properties
\* Reading the log and the tree
IsPrefix(a, b) == Len(a) <= Len(b) /\ \A i \in 1..Len(a) : a[i] = b[i]
NodeIds(rs) == {sc.id : sc \in AllScopes(rs)}
ScopeById(rs, n) == CHOOSE sc \in AllScopes(rs) : sc.id = n
Events(l, kind) == {i \in 1..Len(l) : l[i].e = kind}
EventsOf(l, kind, n) == {i \in Events(l, kind) : l[i].n = n}
\* the compose passes that ran to their end in the log
Composed(l, n) == EventsOf(l, "begin", n) # {} /\ EventsOf(l, "end", n) # {}
NoQueued(rs) ==
    \A sc \in AllScopes(rs) : \A i \in 1..Len(sc.states) : sc.states[i].changed # "Queued"

\* The six phases of a tick, in the order in which they are to run.
PhaseOrder ==
    <<"initial_compose", "run_queued_systems", "drop_decomposed_scopes", "set_states",
      "recompose", "decompose">>
IsPhase(name) == \E i \in 1..Len(PhaseOrder) : PhaseOrder[i] = name

\* C1: within a tick the phases that have run so far are a prefix of the
\* order initial composition, side effects, pruning, mutation application,
\* recomposition, decomposition: none is skipped, reordered or run twice,
\* and each is one whole pass (one step) over all roots.
C1_PhaseOrder == IsPrefix(SelectSeq(trace, IsPhase), PhaseOrder)

C1_Witness ==
    /\ tick = 2
    /\ phase = 0
    /\ SelectSeq(trace, IsPhase) = PhaseOrder
    /\ AllScopes(roots) # {}

\* C4: when no slot of any node is Queued at the start of the recomposition
\* phase, the phase invokes no compose and leaves every tree as it was.
C4_NoOpTick ==
    [][(Runs("recompose") /\ NoQueued(roots))
          => (roots' = roots /\ Events(log', "begin") = {})]_vars

C4_Witness ==
    /\ panicked = NoPanic
    /\ phase = 5
    /\ tick >= 2
    /\ log = <<>>
    /\ NoQueued(roots)
    /\ Cardinality(AllScopes(roots)) >= 3

\* the slot ids of a node, in slot order
SlotIds(sc) == [i \in 1..Len(sc.states) |-> sc.states[i].id]
\* where the one compose pass of node n starts and stops in the log
BeginOf(l, n) == CHOOSE i \in EventsOf(l, "begin", n) : TRUE
EndOf(l, n) ==
    IF EventsOf(l, "end", n) = {} THEN Len(l) + 1
    ELSE CHOOSE i \in EventsOf(l, "end", n) : TRUE
\* the hook calls of that pass
HooksOf(l, n) == {i \in EventsOf(l, "hook", n) : BeginOf(l, n) < i /\ i < EndOf(l, n)}
Ordinal(S, i) == Cardinality({j \in S : j <= i})

C5Pass(n) ==
    /\ Cardinality(EventsOf(log', "begin", n)) = 1
    /\ \A i \in HooksOf(log', n) :
          /\ ~log'[i].created
          /\ Ordinal(HooksOf(log', n), i) <= Len(ScopeById(roots, n).states)
          /\ log'[i].id = ScopeById(roots, n).states[Ordinal(HooksOf(log', n), i)].id
    /\ \A i \in EventsOf(log', "end", n) :
          Len(log'[i].before) = Len(ScopeById(roots, n).states)
    /\ n \in NodeIds(roots') =>
          IsPrefix(SlotIds(ScopeById(roots, n)), SlotIds(ScopeById(roots', n)))

\* the hook calls a compose implementation made on node n: every hook call
\* but those of Spawn::decompose, which calls use_system_once itself
ComposeHooks(l, n, c) ==
    IF c.kind # "Spawn" THEN EventsOf(l, "hook", n)
    ELSE IF EventsOf(l, "begin", n) = {} THEN {}
    ELSE HooksOf(l, n)

\* C5: for a node that was composed before, the k-th state hook of a pass
\* returns the id of the node's k-th slot, and compose creates no further
\* slot: the slot list keeps its length and order.
C5_HookStability ==
    [][\A n \in NodeIds(roots) :
          /\ EventsOf(log', "begin", n) # {} => C5Pass(n)
          /\ \A i \in ComposeHooks(log', n, ScopeById(roots, n).composer) : ~log'[i].created
          /\ n \in NodeIds(roots') => SlotIds(ScopeById(roots', n)) = SlotIds(ScopeById(roots, n))
      ]_vars

\* ---- keyed lists
Ids(children) == [i \in 1..Len(children) |-> children[i].id]
Range(m) == {m[k] : k \in DOMAIN m}
\* a node without its flags: id, slot ids and values, children
RECURSIVE Skeleton(_)
Skeleton(sc) ==
    [id |-> sc.id,
     states |-> [i \in 1..Len(sc.states) |->
                    [id |-> sc.states[i].id, value |-> sc.states[i].value]],
     children |-> [i \in 1..Len(sc.children) |-> Skeleton(sc.children[i])]]
RECURSIVE AnyFlagged(_)
AnyFlagged(sc) ==
    sc.will_decompose \/ \E i \in 1..Len(sc.children) : AnyFlagged(sc.children[i])
\* the keyed lists that were composed before and whose compose ran to its
\* end in this step
VecPasses ==
    {v \in AllScopes(roots) :
        v.composer.kind = "Vec" /\ v.states # <<>> /\ Composed(log', v.id)
        /\ v.id \in NodeIds(roots')}
KeyMap(v) == v.states[1].value.v
InputKeys(v) == KeysOf(v.composer.items)
After(v) == ScopeById(roots', v.id)

C6Pass(v) ==
    (/\ ~HasDuplicate(InputKeys(After(v)))
     /\ SeqToSet(InputKeys(After(v))) = DOMAIN KeyMap(v))
    => /\ KeyMap(After(v)) = KeyMap(v)
       /\ Ids(After(v).children) = Ids(v.children)
       /\ \A j \in 1..Len(v.children) :
             /\ Skeleton(After(v).children[j]) = Skeleton(v.children[j])
             /\ ~AnyFlagged(After(v).children[j])

\* C6: composing a keyed list with a permutation of the keys it was
\* composed with before reuses the same child nodes: the key -> NodeId map
\* and every child's slots (ids and values) are as before, no node is
\* created in the list and none is flagged for decompose.
C6_KeyedReorder == [][\A v \in VecPasses : C6Pass(v)]_vars

\* a list of MaxKey + 1 live children composed in an order other than the one
\* they were created in
C6_Witness ==
    \E v \in AllScopes(roots) :
        /\ v.composer.kind = "Vec"
        /\ Composed(log, v.id)
        /\ Len(v.children) = MaxKey + 1
        /\ \A j \in 1..Len(v.children) : ~v.children[j].will_decompose
        /\ \E i, j \in 1..Len(v.children) : i < j /\ v.children[i].index > v.children[j].index

\* the ids of the children whose id is in S, in list order
RECURSIVE KeepIds(_, _)
KeepIds(children, S) ==
    IF children = <<>> THEN <<>>
    ELSE (IF Head(children).id \in S THEN <<Head(children).id>> ELSE <<>>)
         \o KeepIds(Tail(children), S)

C7Pass(v) ==
    (/\ ~HasDuplicate(InputKeys(After(v)))
     /\ SeqToSet(InputKeys(After(v))) \subseteq DOMAIN KeyMap(v))
    => /\ Ids(After(v).children) = Ids(v.children)
       /\ \A j \in 1..Len(v.children) :
             After(v).children[j].will_decompose
             <=> \E k \in DOMAIN KeyMap(v) \ SeqToSet(InputKeys(After(v))) :
                    KeyMap(v)[k] = v.children[j].id
       /\ KeyMap(After(v)) = [k \in SeqToSet(InputKeys(After(v))) |-> KeyMap(v)[k]]

\* the keyed lists that outlive a pruning
C7Pruned(v) ==
    Ids(After(v).children) = KeepIds(v.children, Range(KeyMap(v)))

\* C7: composing a keyed list with keys K' that are among the keys K it was
\* composed with before flags exactly the children of K \ K' and removes
\* exactly those keys from the map; the next pruning leaves exactly the
\* nodes of the map, in the relative order they had.
C7_KeyedRemoval ==
    [][/\ \A v \in VecPasses : C7Pass(v)
       /\ Runs("drop_decomposed_scopes") =>
             \A v \in AllScopes(roots) :
                 (v.composer.kind = "Vec" /\ v.states # <<>> /\ v.id \in NodeIds(roots'))
                 => C7Pruned(v)
      ]_vars

\* a composition has just flagged a child in the middle of a list and kept
\* its neighbours
C7_Witness ==
    \E v \in AllScopes(roots) :
        /\ v.composer.kind = "Vec"
        /\ Composed(log, v.id)
        /\ Len(v.children) = MaxKey + 1
        /\ ~v.children[1].will_decompose
        /\ v.children[2].will_decompose
        /\ ~v.children[MaxKey + 1].will_decompose
        /\ DOMAIN KeyMap(v) = {0, MaxKey}

\* where the child of key k is in the children list
PosOf(v, k) == FindId(v.children, KeyMap(v)[k])

\* C8 (as stated): after every keyed-list composition the children of the
\* input keys are in the children list in the order of their keys in the
\* input, and every child whose key is not in the map comes after them.
C8_PhysicalOrder ==
    \A v \in AllScopes(roots) :
        (v.composer.kind = "Vec" /\ Composed(log, v.id))
        => /\ \A i, j \in 1..Len(InputKeys(v)) :
                 i < j => PosOf(v, InputKeys(v)[i]) < PosOf(v, InputKeys(v)[j])
           /\ \A c \in 1..Len(v.children) :
                 v.children[c].id \notin Range(KeyMap(v))
                 => \A i \in 1..Len(InputKeys(v)) : PosOf(v, InputKeys(v)[i]) < c

\* the children of a keyed list before the step (none for a new list)
ChildrenBefore(n) == IF n \in NodeIds(roots) THEN ScopeById(roots, n).children ELSE <<>>

C8Pass(v, old) ==
    /\ IsPrefix(Ids(old), Ids(v.children))
    /\ \A p, q \in (Len(old) + 1)..Len(v.children) :
          p < q => v.children[p].index < v.children[q].index
    /\ \A i \in 1..Len(InputKeys(v)) :
          /\ PosOf(v, InputKeys(v)[i]) # 0
          /\ v.children[PosOf(v, InputKeys(v)[i])].index = i - 1

\* C8 (amended): a keyed-list composition does not reorder the children
\* list: the children that were there keep their places, the new children
\* are appended in input order, and the input order is recorded in the
\* position hints: the child of the i-th input key has index i - 1.
C8_PositionHints ==
    [][\A v \in AllScopes(roots') :
          (v.composer.kind = "Vec" /\ Composed(log', v.id))
          => C8Pass(v, ChildrenBefore(v.id))]_vars

\* a composition that reused children in another order and appended a new one
C8_Witness ==
    \E v \in AllScopes(roots) :
        /\ v.composer.kind = "Vec"
        /\ Composed(log, v.id)
        /\ Len(v.children) >= 3
        /\ v.children[1].index > v.children[2].index
        /\ \E i \in Events(log, "new") : log[i].n = Last(v.children).id

\* ---- duplicate keys
LastOf(S) == CHOOSE i \in S : \A j \in S : j <= i
\* the keyed list whose compose raised the panic: the last pass begun
Culprit(l) == l[LastOf(Events(l, "begin"))].n

C9Panic ==
    /\ Events(log', "begin") # {}
    /\ log'[LastOf(Events(log', "begin"))].ty = "Vec"
    /\ Events(log', "new") \cup Events(log', "end") \cup Events(log', "write")
          \subseteq 1..LastOf(Events(log', "begin"))
    /\ Culprit(log') \in NodeIds(roots) =>
          /\ Culprit(log') \in NodeIds(roots')
          /\ ScopeById(roots', Culprit(log')).children = ScopeById(roots, Culprit(log')).children
          /\ SlotIds(ScopeById(roots', Culprit(log'))) = SlotIds(ScopeById(roots, Culprit(log')))
          /\ KeyMap(ScopeById(roots', Culprit(log'))) = KeyMap(ScopeById(roots, Culprit(log')))

\* C9: a keyed-list composition whose input holds a key twice panics before
\* any child is created, recomposed, re-indexed or flagged and before the
\* key map is changed: the children and the map are as they were.
C9_DuplicateKey ==
    [][(panicked = NoPanic /\ panicked' = "Duplicate key found") => C9Panic]_vars

\* the panic was raised by a list that had children
C9_Witness ==
    /\ panicked = "Duplicate key found"
    /\ \E v \in AllScopes(roots) :
          /\ v.composer.kind = "Vec"
          /\ v.id = Culprit(log)
          /\ Len(v.children) >= 2
          /\ HasDuplicate(InputKeys(v))

\* ---- dynamic-type nodes
\* the DynCompose a node's compose runs
DynOf(c) == IF c.kind = "Keyed" THEN c.compose ELSE c
AllSlotIds(rs) == UNION {{sc.states[i].id : i \in 1..Len(sc.states)} : sc \in AllScopes(rs)}
FlaggedIds(rs) == {sc.id : sc \in {x \in AllScopes(rs) : x.will_decompose}}
\* the dynamic-type nodes with a child whose compose ran to its end in this
\* step with a composer of another type than the child's
Remounts ==
    {d \in AllScopes(roots) :
        /\ d.composer.kind \in {"Dyn", "Keyed"}
        /\ d.children # <<>>
        /\ Composed(log', d.id)
        /\ d.id \in NodeIds(roots')
        /\ DynOf(After(d).composer).type_id # TypeIdOf(d.children[1].composer)}

C10Remount(d, new) ==
    /\ Len(After(d).children) = Len(d.children) + 1
    /\ After(d).children[1].id = d.children[1].id
    /\ After(d).children[1].will_decompose
    /\ TypeIdOf(After(d).children[1].composer) = TypeIdOf(d.children[1].composer)
    /\ new.id \notin NodeIds(roots)
    /\ ~new.will_decompose
    /\ TypeIdOf(new.composer) = DynOf(After(d).composer).type_id
    /\ EventsOf(log', "new", new.id) # {}
    /\ Composed(log', new.id)
    /\ \A i \in 1..Len(new.states) : new.states[i].id \notin AllSlotIds(roots)
    /\ \A i \in HooksOf(log', new.id) : log'[i].created

\* every node flagged at the start of the decomposition phase has its
\* decompose hook invoked in it
C10Decomposed ==
    \A sc \in AllScopes(roots) :
        sc.will_decompose =>
            \E i \in EventsOf(log', "decompose", sc.id) : log'[i].ty = TypeIdOf(sc.composer)

\* C10: composing a dynamic-type node whose child was composed from type A
\* with a composer of another type B flags the existing child, creates and
\* composes a new child for B with a new NodeId and only new slots; the
\* flag stays until that tick's decomposition phase, which invokes A's
\* decompose hook on the flagged child.
C10_DynRemount ==
    [][/\ \A d \in Remounts : C10Remount(d, Last(After(d).children))
       /\ (Runs("update_spawn_composables") \/ Runs("order_children"))
             => FlaggedIds(roots') = FlaggedIds(roots)
       /\ (Runs("decompose") /\ panicked' = NoPanic) => C10Decomposed
      ]_vars

\* the decomposition phase has just invoked the decompose hook of a child of
\* type A that a remount to B had flagged
C10_Witness ==
    /\ phase = 0
    /\ tick >= 2
    /\ \E d \in AllScopes(roots) :
          /\ d.composer.kind = "Dyn"
          /\ Len(d.children) = 2
          /\ d.children[1].will_decompose
          /\ ~d.children[2].will_decompose
          /\ TypeIdOf(d.children[1].composer) = "A"
          /\ TypeIdOf(d.children[2].composer) = "B"
          /\ \E i \in EventsOf(log, "decompose", d.children[1].id) : log[i].ty = "A"

\* ---- write visibility
\* the nodes no pruning will remove: not flagged, under no flagged node
RECURSIVE LiveScopes(_)
LiveScopes(sc) ==
    IF sc.will_decompose THEN {}
    ELSE {sc} \cup UNION {LiveScopes(sc.children[i]) : i \in 1..Len(sc.children)}
LiveIds(rs) ==
    UNION {IF rs[i].scope = <<>> THEN {} ELSE {sc.id : sc \in LiveScopes(rs[i].scope[1])}
           : i \in 1..Len(rs)}
\* the nodes of user composables: their slots come from use_state
UserScopes(rs) == {sc \in AllScopes(rs) : sc.composer.kind \in {"Fn", "Leaf"}}
\* the slot the k-th hook call of a pass addresses
SlotRead(l, n, i) == ScopeById(roots, n).states[Ordinal(HooksOf(l, n), i)]

\* mutation application stores the queued value and flags the slot Queued
\* (slots of use_state: their ids are generated, one slot per id)
C2Apply ==
    \A sc \in UserScopes(roots) : \A i \in 1..Len(sc.states) :
        (/\ sc.states[i].id.gen
         /\ sc.states[i].id \in DOMAIN queued
         /\ queued[sc.states[i].id].kind = "Set"
         /\ queued[sc.states[i].id].flag)
        => /\ After(sc).states[i].value = queued[sc.states[i].id].value
           /\ After(sc).states[i].changed = "Queued"
           /\ sc.states[i].id \notin DOMAIN queued'

\* recomposition invokes the compose of the node of a Queued slot, and the
\* handle reads the stored value with the flag Changed
C2Observe ==
    \A sc \in UserScopes(roots) : \A i \in 1..Len(sc.states) :
        (sc.states[i].changed = "Queued" /\ sc.id \in LiveIds(roots) /\ sc.id \in LiveIds(roots'))
        => /\ EventsOf(log', "begin", sc.id) # {}
           /\ \E h \in HooksOf(log', sc.id) :
                 /\ log'[h].id = sc.states[i].id
                 /\ log'[h].changed = "Changed"
                 /\ log'[h].value = sc.states[i].value

\* a pass reads what is stored: Changed for a Queued slot, the stored flag
\* otherwise, and it leaves no slot Changed
C2Read(n) ==
    /\ \A h \in HooksOf(log', n) :
          ~log'[h].created =>
             /\ log'[h].value = SlotRead(log', n, h).value
             /\ log'[h].changed = IF SlotRead(log', n, h).changed = "Queued" THEN "Changed"
                                  ELSE SlotRead(log', n, h).changed
    /\ \A e \in EventsOf(log', "end", n) :
          \A i \in 1..Len(log'[e].flags) : log'[e].flags[i] # "Changed"

\* C2: a flagged value queued from outside for a slot made by use_state is
\* stored and flagged Queued by the next mutation application; the
\* recomposition phase of that tick composes the node with the handle
\* reading that value and Changed; the pass leaves the slot not Changed, so
\* a later pass without a new write reads the same value and not Changed.
C2_WriteVisibility ==
    [][/\ (Runs("set_states") /\ panicked' = NoPanic) => C2Apply
       /\ (Runs("recompose") /\ panicked' = NoPanic) => C2Observe
       /\ \A n \in NodeIds(roots) : EventsOf(log', "begin", n) # {} => C2Read(n)
      ]_vars

\* the recomposition phase has composed a leaf "A" (use_state(0), never
\* written by its compose) with the handle reading 1 and Changed
C2_Witness ==
    /\ tick >= 2
    /\ Last(trace) = "recompose"
    /\ \E h \in Events(log, "hook") :
          /\ log[h].value = Val("i32", 1)
          /\ log[h].changed = "Changed"
          /\ ~log[h].created
          /\ \E sc \in AllScopes(roots) : sc.id = log[h].n /\ sc.composer = Leaf("A")

\* ---- the Changed flag
Promoted(flag) == IF flag = "Queued" THEN "Changed" ELSE flag
Demoted(flag) == IF flag = "Changed" THEN "Unchanged" ELSE flag
\* the slots flagged Changed in the trees, as <<node id, slot id>>
ChangedSlots(rs) ==
    UNION {{<<sc.id, sc.states[i].id>> : i \in {j \in 1..Len(sc.states) :
                                                  sc.states[j].changed = "Changed"}}
           : sc \in AllScopes(rs)}

\* Queued -> Changed at the start of recompose_scope, Changed -> Unchanged at
\* its end, and no other change of a flag but to Queued
C3Law ==
    /\ \A b \in Events(log', "begin") :
          \A i \in 1..Len(log'[b].before) : log'[b].flags[i] = Promoted(log'[b].before[i])
    /\ \A e \in Events(log', "end") :
          \A i \in 1..Len(log'[e].before) : log'[e].flags[i] = Demoted(log'[e].before[i])
    /\ \A sc \in AllScopes(roots) :
          (sc.id \in NodeIds(roots') /\ EventsOf(log', "begin", sc.id) = {})
          => \A i \in 1..Len(sc.states) :
                After(sc).states[i].changed \in {sc.states[i].changed, "Queued"}

\* a pass reads Changed from an existing slot only when the slot was Queued,
\* and leaves it not Changed when it ends
C3Once ==
    \A n \in NodeIds(roots) :
        EventsOf(log', "begin", n) # {}
        => /\ Cardinality(EventsOf(log', "begin", n)) = 1
           /\ \A h \in HooksOf(log', n) :
                 (~log'[h].created /\ log'[h].changed = "Changed")
                 => SlotRead(log', n, h).changed = "Queued"
           /\ (n \in NodeIds(roots') /\ EventsOf(log', "end", n) # {}) =>
                 \A i \in 1..Len(ScopeById(roots, n).states) :
                     After(ScopeById(roots, n)).states[i].changed # "Changed"

\* C3 (as stated): the flag goes Queued -> Changed only at the start of a
\* recompose_scope call of the owning node and Changed -> Unchanged at the
\* end of that call, so no slot is Changed outside a call, and every flagged
\* write and every slot creation has been observed as Changed by exactly one
\* pass: never twice, and never zero times, so a node leaves the tree with
\* every slot Unchanged.
C3_ExactlyOnePass ==
    [][/\ C3Law
       /\ C3Once
       /\ ChangedSlots(roots') = {}
       /\ \A sc \in AllScopes(roots) :
             sc.id \notin NodeIds(roots') =>
                \A i \in 1..Len(sc.states) : sc.states[i].changed = "Unchanged"
      ]_vars

\* C3 (amended): the flag goes Queued -> Changed only at the start of a
\* recompose_scope call of the owning node and Changed -> Unchanged only at
\* the end of such a call; outside a call a flag changes only to Queued.  A
\* pass observes a flagged write as Changed at most once (the first pass
\* after the write) and never twice; a write is not observed at all when its
\* node is flagged for decompose before its next pass.  A slot created by a
\* hook call made from a decompose hook stays Changed: the only slots
\* Changed between two steps are slots of nodes flagged for decompose.
C3_AtMostOnePass ==
    [][/\ C3Law
       /\ C3Once
       /\ panicked' = NoPanic =>
             \A sc \in AllScopes(roots') :
                 (\E i \in 1..Len(sc.states) : sc.states[i].changed = "Changed")
                 => sc.will_decompose
      ]_vars

\* one pass of a list has observed a Queued slot of a kept child as Changed
\* and demoted it, and has flagged another child whose Queued slot no pass
\* will observe
C3_Witness ==
    /\ \E b \in Events(log, "begin") : \E e \in EventsOf(log, "end", log[b].n) :
          \E i \in 1..Len(log[b].before) :
             /\ log[b].before[i] = "Queued"
             /\ log[b].flags[i] = "Changed"
             /\ log[e].flags[i] = "Unchanged"
    /\ \E sc \in AllScopes(roots) :
          /\ sc.will_decompose
          /\ EventsOf(log, "begin", sc.id) = {}
          /\ \E i \in 1..Len(sc.states) : sc.states[i].changed = "Queued"

\* ---- dynamic-type reuse
\* the dynamic-type nodes with a child whose compose ran to its end in this
\* step with a composer of the type the node remembers
Reuses ==
    {d \in AllScopes(roots) :
        /\ d.composer.kind \in {"Dyn", "Keyed"}
        /\ d.children # <<>>
        /\ d.states # <<>>
        /\ Composed(log', d.id)
        /\ d.id \in NodeIds(roots')
        /\ DynOf(After(d).composer).type_id = d.states[1].value.v}

C11Reuse(d) ==
    /\ Ids(After(d).children) = Ids(d.children)
    /\ \A i \in 1..Len(d.children) :
          After(d).children[i].will_decompose = d.children[i].will_decompose
    /\ SlotIds(After(d).children[1]) = SlotIds(d.children[1])
    /\ After(d).children[1].composer = DynOf(After(d).composer).compose
    /\ \E b \in EventsOf(log', "begin", d.children[1].id) :
          /\ BeginOf(log', d.id) < b /\ b < EndOf(log', d.id)
          /\ log'[b].ty = DynOf(After(d).composer).type_id
    /\ \A i \in Events(log', "new") : ~(BeginOf(log', d.id) < i /\ i < EndOf(log', d.id))

\* C11: composing a dynamic-type node with a composer of the remembered
\* type keeps the existing child (same NodeId, same slots), gives it the
\* new composer and recomposes it inside the node's compose; the node
\* creates no child and flags none for decompose.
C11_DynReuse == [][\A d \in Reuses : C11Reuse(d)]_vars

\* the recomposition phase has composed a dynamic-type node and, inside that
\* pass, the child it already had
C11_Witness ==
    /\ tick >= 2
    /\ Last(trace) = "recompose"
    /\ \E d \in AllScopes(roots) :
          /\ d.composer.kind = "Dyn"
          /\ Len(d.children) = 1
          /\ Composed(log, d.id)
          /\ EventsOf(log, "new", d.children[1].id) = {}
          /\ \E b \in EventsOf(log, "begin", d.children[1].id) :
                BeginOf(log, d.id) < b /\ b < EndOf(log, d.id)

\* ---- the mutation queue
\* the nodes of the trees in the order set_states visits them
RECURSIVE Visit(_), VisitChildren(_, _), VisitRoots(_, _)
Visit(scope) == <<scope>> \o VisitChildren(scope.children, 1)
VisitChildren(cs, i) ==
    IF i > Len(cs) THEN <<>> ELSE Visit(cs[i]) \o VisitChildren(cs, i + 1)
VisitRoots(rs, i) ==
    IF i > Len(rs) THEN <<>>
    ELSE (IF rs[i].scope = <<>> THEN <<>> ELSE Visit(rs[i].scope[1]))
         \o VisitRoots(rs, i + 1)

\* the positions in that order of the nodes with a slot of id
HoldersOf(order, id) == {i \in 1..Len(order) : FindId(order[i].states, id) # 0}

FirstHolder(order, id) ==
    order[CHOOSE i \in HoldersOf(order, id) : \A j \in HoldersOf(order, id) : i <= j]

\* a submission replaces what was queued for the id and nothing else
C12Submit(id, a) ==
    /\ DOMAIN queued' = DOMAIN queued \cup {id}
    /\ queued'[id] = a
    /\ \A k \in DOMAIN queued \ {id} : queued'[k] = queued[k]

\* mutation application applies the one queued action of a slot, once
C12Apply(sc, i) ==
    /\ Cardinality({e \in Events(log', "apply") : log'[e].id = sc.states[i].id}) = 1
    /\ After(sc).states[i].value =
          ActionResult(queued[sc.states[i].id], sc.states[i].value).value
    /\ After(sc).states[i].changed =
          IF ActionResult(queued[sc.states[i].id], sc.states[i].value).flag
          THEN "Queued" ELSE sc.states[i].changed
    /\ sc.states[i].id \notin DOMAIN queued'

\* C12: the queue holds one action per StateId, the last one submitted: a
\* submission replaces the action queued before for the same id, which is
\* never applied; mutation application applies the queued action to the
\* slot once (the first it meets, should two nodes have a slot of the id),
\* removes it, and the slot's flag changes at most to Queued.
C12_LastWriteWins ==
    [][/\ \A e \in Events(log', "submit") : C12Submit(log'[e].id, log'[e].a)
       /\ (Runs("set_states") /\ panicked' = NoPanic)
             => \A sc \in AllScopes(roots) : \A i \in 1..Len(sc.states) :
                   (/\ sc.states[i].id \in DOMAIN queued
                    /\ sc = FirstHolder(VisitRoots(roots, 1), sc.states[i].id))
                   => C12Apply(sc, i)
      ]_vars

\* two submissions between the first and the second tick were for the same
\* id: the second mutation application applied one action and the queue is
\* empty
C12_Witness ==
    /\ tick = 2
    /\ submits = 2
    /\ Last(trace) = "set_states"
    /\ Cardinality(Events(log, "apply")) = 1
    /\ queued = <<>>

\* ---- mutations submitted by queued systems
AppliedIds(l) == {l[e].id : e \in Events(l, "apply")}

\* C13 (as stated): an action a queued system submits while it runs in the
\* side-effect phase of a tick is not applied to any slot by the mutation
\* application of that tick.
C13_OneTickLatency ==
    [][Runs("set_states") => AppliedIds(log') \cap closure_ids = {}]_vars

\* C13 (amended): an action a queued system submits while it runs in the
\* side-effect phase of a tick is in the queue when that phase ends, stays
\* there through the pruning phase, and is applied by the mutation
\* application of the same tick, which runs after the side-effect phase.
C13_SameTick ==
    [][/\ (Runs("run_queued_systems") /\ panicked' = NoPanic)
             => /\ closure_ids' = SubmittedIn(log')
                /\ closure_ids' \subseteq DOMAIN queued'
       /\ Runs("drop_decomposed_scopes") => queued' = queued
       /\ (Runs("set_states") /\ panicked' = NoPanic)
             => /\ \E i \in 1..Len(trace) : trace[i] = "run_queued_systems"
                /\ \A id \in closure_ids \cap AllSlotIds(roots) :
                      id \in AppliedIds(log') /\ id \notin DOMAIN queued'
      ]_vars

\* the first tick's mutation application has applied what the spawn system
\* submitted in that tick's side-effect phase
C13_Witness ==
    /\ tick = 1
    /\ Last(trace) = "set_states"
    /\ closure_ids # {}
    /\ closure_ids \subseteq AppliedIds(log)
    /\ \E sc \in AllScopes(roots) :
          /\ sc.composer.kind = "Spawn"
          /\ sc.states[1].id \in closure_ids
          /\ sc.states[1].value.v # <<>>
          /\ sc.states[1].changed = "Queued"

\* ---- local writes
\* the slot of node n with that id, after the step
SlotAfter(n, id) == ScopeById(roots', n).states[FindId(ScopeById(roots', n).states, id)]

\* the hook call of the pass that returned the handle
C14Handle(e) ==
    \E h \in HooksOf(log', log'[e].n) :
        /\ h < e
        /\ log'[h].id = log'[e].id
        /\ log'[h].value = log'[e].handle.value
        /\ log'[h].changed = log'[e].handle.changed

C14Write(e) ==
    /\ C14Handle(e)
    /\ log'[e].handle.value # log'[e].value
    /\ log'[e].handle.changed # "Queued"
    /\ log'[e].n \in NodeIds(roots')
    /\ SlotAfter(log'[e].n, log'[e].id).value = log'[e].value
    /\ SlotAfter(log'[e].n, log'[e].id).changed = "Queued"
    /\ queued' = queued

\* C14: set_state(handle, v) called in a compose stores v in the slot and
\* flags it Queued at once, leaving the mutation queue alone; the handle
\* the caller holds is still the snapshot its hook returned (old value, old
\* flag); the slot is Queued with v when the step ends, and a pass that
\* finds a slot Queued reads its stored value with the flag Changed.
C14_LocalWrite ==
    [][/\ \A e \in Events(log', "set_state") : C14Write(e)
       /\ \A n \in NodeIds(roots) :
             EventsOf(log', "begin", n) # {}
             => \A h \in HooksOf(log', n) :
                   (~log'[h].created /\ SlotRead(log', n, h).changed = "Queued")
                   => /\ log'[h].value = SlotRead(log', n, h).value
                      /\ log'[h].changed = "Changed"
      ]_vars

\* the first tick's recomposition phase composes a leaf "B" whose first
\* composition called set_state(&n, 1): the handle reads 1 and Changed
C14_Witness ==
    /\ tick = 1
    /\ Last(trace) = "recompose"
    /\ \E h \in Events(log, "hook") :
          /\ log[h].value = Val("i32", 1)
          /\ log[h].changed = "Changed"
          /\ ~log[h].created
          /\ \E sc \in AllScopes(roots) : sc.id = log[h].n /\ sc.composer = Leaf("B")

\* ---- unflagged local writes
\* the set_state_unchanged calls of the step, and whether one is the last
\* write of the step to its slot
QuietWrites(l) == {e \in Events(l, "write") : ~l[e].flag}
LastWrite(l, e) ==
    \A f \in Events(l, "write") : (l[f].n = l[e].n /\ l[f].id = l[e].id) => f <= e
InPass(l, e) ==
    /\ Composed(l, l[e].n)
    /\ BeginOf(l, l[e].n) < e
    /\ e < EndOf(l, l[e].n)

\* the flag the slot had before the call is the flag it has when the
\* compose returns (inside a pass) or when the step ends (outside)
C15Write(e) ==
    /\ LastWrite(log', e) => SlotAfter(log'[e].n, log'[e].id).value = log'[e].value
    /\ IF InPass(log', e)
       THEN log'[EndOf(log', log'[e].n)].before[
                FindId(ScopeById(roots', log'[e].n).states, log'[e].id)] = log'[e].was
       ELSE /\ log'[e].n \in NodeIds(roots)
            /\ SlotAfter(log'[e].n, log'[e].id).changed = log'[e].was
            /\ ScopeById(roots, log'[e].n).states[
                   FindId(ScopeById(roots, log'[e].n).states, log'[e].id)].changed
               = log'[e].was

\* C15: set_state_unchanged(handle, v) stores v and leaves the slot's flag
\* as it was; outside a pass it does not make a node eligible for
\* recomposition; a pass that finds the slot Unchanged reads the stored
\* value with the flag Unchanged.
C15_QuietWrite ==
    [][/\ \A e \in QuietWrites(log') : log'[e].n \in NodeIds(roots') => C15Write(e)
       /\ Runs("update_spawn_composables")
             => \A sc \in AllScopes(roots) : IsQueued(After(sc)) = IsQueued(sc)
       /\ \A n \in NodeIds(roots) :
             EventsOf(log', "begin", n) # {}
             => \A h \in HooksOf(log', n) :
                   (~log'[h].created /\ SlotRead(log', n, h).changed = "Unchanged")
                   => /\ log'[h].value = SlotRead(log', n, h).value
                      /\ log'[h].changed = "Unchanged"
      ]_vars

\* a Spawn node recomposed because its parent was: should_update reads
\* false, the value update_spawn_composables wrote with
\* set_state_unchanged, and the flag is Unchanged
C15_Witness ==
    /\ tick >= 2
    /\ Last(trace) = "recompose"
    /\ \E h \in Events(log, "hook") :
          /\ log[h].value = Val("bool", FALSE)
          /\ log[h].changed = "Unchanged"
          /\ ~log[h].created
          /\ \E sc \in AllScopes(roots) : sc.id = log[h].n /\ sc.composer.kind = "Spawn"

\* ---- recomposition completeness
HasQueued(sc) == \E i \in 1..Len(sc.states) : sc.states[i].changed = "Queued"
\* the nodes a log composed, and how often
Begun(l) == {l[b].n : b \in Events(l, "begin")}
AtMostOnce(l) == \A n \in Begun(l) : Cardinality(EventsOf(l, "begin", n)) = 1

\* C16 (as stated): every node with a Queued slot at the start of the
\* recomposition phase that is not flagged for decompose during the phase
\* is composed in it, and no node is composed twice in it.
C16_Completeness ==
    [][(Runs("recompose") /\ panicked' = NoPanic)
          => /\ \A sc \in AllScopes(roots) :
                   (HasQueued(sc) /\ ~After(sc).will_decompose) => Composed(log', sc.id)
             /\ AtMostOnce(log')]_vars

\* C16 (amended): every node with a Queued slot at the start of the
\* recomposition phase that, when the phase ends, is neither flagged for
\* decompose nor below a flagged node is composed in the phase; a node
\* below a node flagged in the phase is not composed, Queued or not; no
\* node is composed twice in the phase.
C16_LiveCompleteness ==
    [][(Runs("recompose") /\ panicked' = NoPanic)
          => /\ \A sc \in AllScopes(roots) :
                   (HasQueued(sc) /\ sc.id \in LiveIds(roots')) => Composed(log', sc.id)
             /\ \A sc \in AllScopes(roots) :
                   (sc.id \in LiveIds(roots) /\ sc.id \notin LiveIds(roots'))
                   => sc.id \notin Begun(log')
             /\ AtMostOnce(log')]_vars

\* the recomposition phase passed over a clean root, composed a node below
\* it for its Queued slot, and composed that node's child with it
C16_Witness ==
    /\ tick >= 2
    /\ Last(trace) = "recompose"
    /\ \E r \in 1..Len(roots) : \E d \in Events(log, "dirty") :
          /\ roots[r].scope # <<>>
          /\ roots[r].scope[1].id \notin Begun(log)
          /\ log[d].n \in NodeIds(roots)
          /\ Composed(log, log[d].n)
          /\ \E n \in Begun(log) : n # log[d].n /\ Events(log, "dirty") = {d}

\* ---- node lifecycle
\* the step takes no tree from its Root
RootsKept ==
    /\ Len(roots') >= Len(roots)
    /\ \A i \in 1..Len(roots) : roots[i].scope # <<>> => roots'[i].scope # <<>>

\* the hook of every node flagged when the decomposition phase starts is
\* invoked in it
C17Hooks == \A n \in FlaggedIds(roots) : EventsOf(log', "decompose", n) # {}

\* C17: a decompose flag is set only in the recomposition and decomposition
\* phases, and none is set when the recomposition phase starts; the
\* decomposition phase of the same tick invokes the hook of every flagged
\* node; a flagged node stays in its tree, flagged, through every step but
\* pruning (and the removal or replacement of its Root); the pruning phase, which is the
\* next tick's, removes exactly the flagged nodes, so that every node that
\* leaves a tree was flagged before.
C17_Lifecycle ==
    [][/\ ~(Runs("recompose") \/ Runs("decompose"))
             => FlaggedIds(roots') \subseteq FlaggedIds(roots)
       /\ Runs("recompose") => FlaggedIds(roots) = {}
       /\ (Runs("decompose") /\ panicked' = NoPanic) => C17Hooks
       /\ (~Runs("drop_decomposed_scopes") /\ RootsKept)
             => /\ FlaggedIds(roots) \subseteq FlaggedIds(roots')
                /\ NodeIds(roots) \subseteq NodeIds(roots')
       /\ Runs("drop_decomposed_scopes")
             => /\ FlaggedIds(roots') = {}
                /\ NodeIds(roots) \ NodeIds(roots') = FlaggedIds(roots)
      ]_vars

\* the pruning phase has removed the child of type A that a remount to B
\* flagged in the tick before
C17_Witness ==
    /\ tick >= 2
    /\ Last(trace) = "drop_decomposed_scopes"
    /\ FlaggedIds(roots) = {}
    /\ \E r \in 1..Len(roots) :
          /\ roots[r].compose = Fn("switch_app", "A")
          /\ roots[r].scope # <<>>
          /\ \E d \in ScopesOf(roots[r].scope[1]) :
                /\ d.composer.kind = "Dyn"
                /\ Len(d.children) = 1
                /\ TypeIdOf(d.children[1].composer) = "B"

\* ---- decompose cascade
\* the one decompose hook call of node n in a log
HookAt(l, n) == CHOOSE i \in EventsOf(l, "decompose", n) : TRUE

\* the subtree of a flagged node: all flagged after the phase, each hook
\* invoked once, a node's before those of the nodes below it
C18Subtree(sc) ==
    \A a \in ScopesOf(sc) :
        /\ a.id \in FlaggedIds(roots')
        /\ Cardinality(EventsOf(log', "decompose", a.id)) = 1
        /\ \A d \in ScopesOf(a) \ {a} :
              /\ EventsOf(log', "decompose", d.id) # {}
              /\ HookAt(log', a.id) < HookAt(log', d.id)

\* C18: when the decomposition phase meets a flagged node, every node of
\* its subtree is flagged and has its decompose hook invoked in that phase,
\* a node before the nodes below it.
C18_Cascade ==
    [][(Runs("decompose") /\ panicked' = NoPanic)
          => \A sc \in AllScopes(roots) : sc.will_decompose => C18Subtree(sc)]_vars

\* the decomposition phase has gone from a flagged list item down to its
\* grandchild: all three are flagged, their hooks ran top-down
C18_Witness ==
    /\ tick >= 2
    /\ Last(trace) = "decompose"
    /\ \E sc \in AllScopes(roots) :
          /\ sc.composer.kind = "Keyed"
          /\ sc.will_decompose
          /\ sc.children # <<>>
          /\ sc.children[1].will_decompose
          /\ sc.children[1].children # <<>>
          /\ sc.children[1].children[1].will_decompose
          /\ EventsOf(log, "decompose", sc.children[1].children[1].id) # {}
          /\ EventsOf(log, "decompose", sc.id) # {}
          /\ HookAt(log, sc.id) < HookAt(log, sc.children[1].children[1].id)

\* no node of the trees has a system waiting
QueuesEmpty(rs) == \A sc \in AllScopes(rs) : sc.queued_systems = <<>>

\* the systems waiting in the trees
Waiting(rs) == UNION {Range(sc.queued_systems) : sc \in AllScopes(rs)}

\* the system was run exactly once in the log
RanOnce(l, sys) == Cardinality({i \in Events(l, "run") : l[i].sys = sys}) = 1

PreOrder(l, tree) ==
    \A sc \in ScopesOf(tree) :
        /\ Cardinality(EventsOf(l, "decompose", sc.id)) = 1
        /\ \A j \in 1..Len(sc.children) : \A d \in ScopesOf(sc.children[j]) :
              /\ EventsOf(l, "decompose", d.id) # {}
              /\ HookAt(l, sc.id) < HookAt(l, d.id)
              /\ \A k \in (j + 1)..Len(sc.children) :
                    /\ EventsOf(l, "decompose", sc.children[k].id) # {}
                    /\ HookAt(l, d.id) < HookAt(l, sc.children[k].id)

C21_Drained ==
    [][(Runs("set_states") /\ panicked' = NoPanic) => DOMAIN queued' = {}]_vars

\* ---- effects and one-shot hooks
\* the hook call that gave the handle of slot id used at position i of the
\* log: the last one of node n for that id before i
HandleOf(l, i, n, id) ==
    CHOOSE h \in EventsOf(l, "hook", n) :
        /\ l[h].id = id
        /\ h < i
        /\ \A g \in EventsOf(l, "hook", n) : (l[g].id = id /\ g < i) => g <= h

\* the flag a dependency of the effect call at position i was obtained with
Snapshot(l, i, k) == l[HandleOf(l, i, l[i].n, l[i].ids[k])].changed

\* the pass of a node with use_mount: the callback ran iff the hook call of
\* the one-shot slot (the second of the pass) returned Changed
C22Mount(sc) ==
    (EventsOf(log', "mount", sc.id) # {})
    <=> \E h \in HooksOf(log', sc.id) :
            Ordinal(HooksOf(log', sc.id), h) = 2 /\ log'[h].changed = "Changed"

\* C22: a call of effect invokes the callback if and only if at least one
\* of its dependency handles was obtained, in this pass, from a slot that
\* was Changed at that moment; what became of the slot since (a set_state of
\* the same pass makes it Queued) does not count.
C22_Effect ==
    [][/\ \A i \in Events(log', "effect") :
             log'[i].ran <=> \E k \in 1..Len(log'[i].ids) : Snapshot(log', i, k) = "Changed"
       /\ \A sc \in AllScopes(roots') :
             (sc.composer = Leaf("A") /\ Composed(log', sc.id)) => C22Mount(sc)
      ]_vars

\* an effect has just run for its second dependency alone: the first was
\* obtained Unchanged, the second Changed
C22_Witness ==
    \E i \in Events(log, "effect") :
        /\ log[i].ran
        /\ Len(log[i].ids) = 2
        /\ Snapshot(log, i, 1) = "Unchanged"
        /\ Snapshot(log, i, 2) = "Changed"

\* the spawn systems (the closure of the use_system_once in Spawn::compose)
\* waiting in a node's queue
SpawnSystems(sc) == {k \in 1..Len(sc.queued_systems) : sc.queued_systems[k].sys = "spawn"}

\* a node made in this step whose first composition ran to its end
FirstPass(sc) == sc.id \notin NodeIds(roots) /\ Composed(log', sc.id)

\* C23: a use_mount callback runs, and a use_system_once closure of compose
\* is enqueued, in the step that creates the node, once, and in no later
\* step, however often the node is recomposed (node ids are not reused).
C23_OneShot ==
    [][/\ \A i \in Events(log', "mount") : log'[i].n \notin NodeIds(roots)
       /\ \A sc \in AllScopes(roots') :
             (sc.composer = Leaf("A") /\ FirstPass(sc))
             => Cardinality(EventsOf(log', "mount", sc.id)) = 1
       /\ \A sc \in AllScopes(roots') :
             (sc.composer.kind = "Spawn" /\ FirstPass(sc))
             => /\ Cardinality(SpawnSystems(sc)) = 1
                /\ \A k \in SpawnSystems(sc) : sc.queued_systems[k].scope_id = sc.id
       /\ \A sc \in AllScopes(roots) :
             (sc.id \in NodeIds(roots') /\ ~Runs("run_queued_systems"))
             => Cardinality(SpawnSystems(After(sc))) = Cardinality(SpawnSystems(sc))
       /\ \A sc \in AllScopes(roots) :
             (sc.id \in NodeIds(roots') /\ Runs("run_queued_systems"))
             => SpawnSystems(After(sc)) = {}
      ]_vars

\* a Spawn node whose entity exists, and the user node below it, have
\* just been recomposed: no callback ran and no system was enqueued
C23_Witness ==
    /\ tick >= 2
    /\ Last(trace) = "recompose"
    /\ \E sp, a \in AllScopes(roots) :
          /\ sp.composer.kind = "Spawn"
          /\ Composed(log, sp.id)
          /\ sp.states[1].value.v # <<>>
          /\ sp.queued_systems = <<>>
          /\ a \in ScopesOf(sp)
          /\ a.composer = Leaf("A")
          /\ Composed(log, a.id)
          /\ EventsOf(log, "mount", a.id) = {}

\* ---- the sole child of a node without composite semantics
\* the handle the first hook call of the node's pass returned
HandleAt(ev) == [id |-> ev.id, changed |-> ev.changed, value |-> ev.value]
FirstRead(l, n) ==
    HandleAt(l[CHOOSE h \in HooksOf(l, n) : Ordinal(HooksOf(l, n), h) = 1])

\* the child description the pass of a node returned
Returned(l, sc) ==
    IF sc.composer.kind = "Fn" THEN View(sc.composer, FirstRead(l, sc.id))
    ELSE IF sc.composer.kind = "Spawn" THEN sc.composer.children
    ELSE IF sc.composer.kind = "Option"
         THEN DynCompose(IF sc.composer.some THEN sc.composer.inner ELSE Unit)
    ELSE Unit

\* the pass left one child with the returned description: the child the
\* node had, with its id and its slots, or a new node when it had none
C24Pass(sc, old) ==
    /\ Len(sc.children) = 1
    /\ sc.children[1].composer = Returned(log', sc)
    /\ IF old # <<>>
       THEN /\ Len(old) = 1
            /\ sc.children[1].id = old[1].id
            /\ IsPrefix(SlotIds(old[1]), SlotIds(sc.children[1]))
       ELSE sc.children[1].id \notin NodeIds(roots)

\* C24: a node whose composer has no composite semantics never has more
\* than one child; a pass of it creates a child only when it has none and
\* otherwise keeps the child it has (same NodeId, same slots), giving it the
\* composer the pass returned.
C24_SoleChild ==
    [][/\ \A sc \in AllScopes(roots') :
             ~IgnoreChildren(sc.composer) => Len(sc.children) <= 1
       /\ panicked' = NoPanic =>
             \A sc \in AllScopes(roots') :
                 (~IgnoreChildren(sc.composer) /\ Composed(log', sc.id))
                 => C24Pass(sc, ChildrenBefore(sc.id))
      ]_vars

\* the root of a switch_app first composed with A has just been recomposed
\* with B: it has the child it had, whose composer now is the B description
C24_Witness ==
    /\ tick >= 1
    /\ Last(trace) = "recompose"
    /\ \E r \in 1..Len(roots) :
          /\ roots[r].compose = Fn("switch_app", "A")
          /\ roots[r].scope # <<>>
          /\ Composed(log, roots[r].scope[1].id)
          /\ Len(roots[r].scope[1].children) = 1
          /\ roots[r].scope[1].children[1].composer = DynCompose(Leaf("B"))
          /\ roots[r].scope[1].children[1].id = roots[r].scope[1].id + 2

\* ---- downward propagation
\* the children a node's composition keeps: the entries of the input keys
\* of a list, the child of the composer's type of a dynamic-type node (the
\* one it does not flag), every element of a tuple, the sole child of a node
\* without composite semantics
KeptBy(sc) ==
    IF sc.composer.kind = "Vec"
    THEN {c \in Range(sc.children) : \E k \in Range(InputKeys(sc)) :
              k \in DOMAIN KeyMap(sc) /\ KeyMap(sc)[k] = c.id}
    ELSE IF sc.composer.kind \in {"Dyn", "Keyed"}
         THEN {c \in Range(sc.children) : ~c.will_decompose}
    ELSE Range(sc.children)

\* what a list, a tuple, a dynamic-type node keeps is what its input asks for
C25Kept(sc) ==
    /\ sc.composer.kind = "Vec"
          => \A k \in Range(InputKeys(sc)) :
                k \in DOMAIN KeyMap(sc) /\ KeyMap(sc)[k] \in {c.id : c \in KeptBy(sc)}
    /\ sc.composer.kind = "Tuple" => Len(sc.children) = Len(sc.composer.items)
    /\ sc.composer.kind \in {"Dyn", "Keyed"} => Cardinality(KeptBy(sc)) = 1

\* C25: a pass of a node that runs to its end recomposes, within the same
\* step, every child the composition keeps, whatever the flags of the
\* child's slots.
C25_Downwards ==
    [][panicked' = NoPanic =>
          \A sc \in AllScopes(roots') :
              Composed(log', sc.id)
              => /\ C25Kept(sc)
                 /\ \A c \in KeptBy(sc) : Composed(log', c.id)]_vars

\* a tuple has just been recomposed, and with it an element that had no
\* slot Queued: a node that existed, both of its slots Unchanged
C25_Witness ==
    /\ tick >= 1
    /\ Last(trace) = "recompose"
    /\ \E sc \in AllScopes(roots) :
          /\ sc.composer.kind = "Tuple"
          /\ Composed(log, sc.id)
          /\ Composed(log, sc.children[1].id)
          /\ EventsOf(log, "new", sc.children[1].id) = {}
          /\ log[BeginOf(log, sc.children[1].id)].before = <<"Unchanged", "Unchanged">>

\* ---- fatal errors
\* the user structs that write a slot their node does not have
StaleOps == {"set", "unchanged", "with_id"}

\* the slots that were there before the step, in the nodes that made no
\* write of their own in it, have the values they had and are not newly
\* flagged Queued
SlotsUntouched ==
    \A sc \in AllScopes(roots) :
        (sc.id \in NodeIds(roots') /\ EventsOf(log', "write", sc.id) = {})
        => \A i \in 1..Len(sc.states) :
              /\ After(sc).states[i].id = sc.states[i].id
              /\ After(sc).states[i].value = sc.states[i].value
              /\ After(sc).states[i].changed = "Queued" => sc.states[i].changed = "Queued"

\* C26: the composition of a node that calls set_state or
\* set_state_unchanged with a handle of another node's slot, or
\* set_state_with_id with an id it has no slot for, panics with
\* "State not found."; the failed call writes no slot: the log has no
\* write by that node or after its composition began, and the slots of
\* the nodes that wrote nothing themselves are as they were.
C26_MissingSlot ==
    [][/\ \A b \in Events(log', "begin") :
             log'[b].ty \in StaleOps => panicked' = "State not found."
       /\ panicked' = "State not found." =>
             /\ \E b \in Events(log', "begin") :
                   /\ log'[b].ty \in StaleOps
                   /\ EventsOf(log', "write", log'[b].n) = {}
                   /\ \A e \in Events(log', "write") : e < b
             /\ SlotsUntouched
      ]_vars

\* a recomposition has reached a child that calls set_state_unchanged
\* with the handle of its parent's state: the program has panicked
C26_Witness ==
    /\ panicked = "State not found."
    /\ \E r \in 1..Len(roots) :
          /\ roots[r].compose = Fn("stale_app", "none")
          /\ roots[r].scope # <<>>
          /\ roots[r].scope[1].states[1].value.v = "unchanged"

\* the slot the typed hook of a user struct addresses: the first by cursor
\* for "T", the one of the manual id for "I"
TypedSlot(sc) == IF sc.composer.ty = "T" THEN 1 ELSE FindId(sc.states, ManualId)

\* the existing nodes of typed user structs that the step began to recompose
TypedPasses ==
    {sc \in AllScopes(roots) :
        /\ sc.id \in NodeIds(roots')
        /\ After(sc).composer.kind = "Leaf"
        /\ After(sc).composer.ty \in {"T", "I"}
        /\ EventsOf(log', "begin", sc.id) # {}
        /\ TypedSlot(After(sc)) \in 1..Len(sc.states)}

\* the type the hook asks for is not the type of the value in the slot
Mismatch(sc) == sc.states[TypedSlot(After(sc))].value.ty # After(sc).composer.of

\* C27: use_state (by cursor) and use_state_with_id (by id) asking for a
\* type other than that of the value in the existing slot they address
\* panic with "State value type mismatch."; whether they panic or not, the
\* slot keeps its value: the initial value passed to the hook is not stored.
C27_TypeMismatch ==
    [][/\ \A sc \in TypedPasses :
             /\ Mismatch(sc) => panicked' = "State value type mismatch."
             /\ After(sc).states[TypedSlot(After(sc))].value
                    = sc.states[TypedSlot(After(sc))].value
       /\ panicked' = "State value type mismatch."
             => \E sc \in TypedPasses : Mismatch(sc)
      ]_vars

\* a node whose slot of the manual id holds an i32 has been recomposed
\* asking for a bool: the program has panicked, the slot holds the i32
C27_Witness ==
    /\ panicked = "State value type mismatch."
    /\ \E sc \in AllScopes(roots) :
          /\ sc.composer = Typed("I", "bool")
          /\ Len(sc.states) = 2
          /\ sc.states[2].id = ManualId
          /\ sc.states[2].value = Val("i32", 0)

\* ---- ids
RECURSIVE CountNodes(_), CountChildren(_, _), CountSlots(_), CountSlotsOfChildren(_, _)
\* the number of nodes of a tree, and of Generated slots in it
CountChildren(children, i) ==
    IF i > Len(children) THEN 0
    ELSE CountNodes(children[i]) + CountChildren(children, i + 1)
CountNodes(scope) == 1 + CountChildren(scope.children, 1)
CountSlotsOfChildren(children, i) ==
    IF i > Len(children) THEN 0
    ELSE CountSlots(children[i]) + CountSlotsOfChildren(children, i + 1)
CountSlots(scope) ==
    Cardinality({i \in 1..Len(scope.states) : scope.states[i].id.gen})
    + CountSlotsOfChildren(scope.children, 1)

\* the numbers of the Generated StateIds in the trees
GeneratedIds(rs) ==
    UNION {{sc.states[i].id.n : i \in {j \in 1..Len(sc.states) : sc.states[j].id.gen}}
           : sc \in AllScopes(rs)}

\* as many different ids as there are nodes and Generated slots
Unique(rs) ==
    /\ \A i \in 1..Len(rs) :
          rs[i].scope # <<>>
          => /\ Cardinality(NodeIds(<<rs[i]>>)) = CountNodes(rs[i].scope[1])
             /\ Cardinality(GeneratedIds(<<rs[i]>>)) = CountSlots(rs[i].scope[1])
    /\ \A i, j \in 1..Len(rs) :
          i # j => /\ NodeIds(<<rs[i]>>) \cap NodeIds(<<rs[j]>>) = {}
                   /\ GeneratedIds(<<rs[i]>>) \cap GeneratedIds(<<rs[j]>>) = {}
    /\ NodeIds(rs) \cap GeneratedIds(rs) = {}

\* C28: the counter never decreases; the nodes and the Generated slots of
\* the trees, flagged or not, all have different ids; and an id that
\* appears in a step is one the counter gave out in that step, so no id
\* comes back after its node or slot is gone.
C28_UniqueIds ==
    [][/\ uid' >= uid
       /\ Unique(roots')
       /\ \A n \in (NodeIds(roots') \cup GeneratedIds(roots'))
                    \ (NodeIds(roots) \cup GeneratedIds(roots)) : uid <= n /\ n < uid'
      ]_vars

\* a Root has been replaced and composed again: the new tree has none of
\* the ids of the tree that is gone
C28_Witness ==
    /\ spawned = MaxRoots + MaxReplaces
    /\ Len(roots) = 1
    /\ roots[1].scope # <<>>
    /\ roots[1].scope[1].id >= 3
    /\ CountNodes(roots[1].scope[1]) >= 3
    /\ \A n \in NodeIds(roots) \cup GeneratedIds(roots) : n >= roots[1].scope[1].id

\* ---- teardown
\* C29 (as stated): the decomposition phase invokes no compose: no hook is
\* called, no node is composed or created, and the trees keep their nodes
\* and their slots.
C29_TeardownOnly ==
    [][Runs("decompose")
       => /\ Events(log', "hook") = {}
          /\ Events(log', "begin") = {}
          /\ Events(log', "new") = {}
          /\ NodeIds(roots') = NodeIds(roots)
          /\ GeneratedIds(roots') = GeneratedIds(roots)]_vars

\* ---- set_neq
\* the action queued for the slot is a set_neq
IsNeq(q, id) == id \in DOMAIN q /\ q[id].kind = "Modify" /\ q[id].f = "neq"

\* what set_neq(state, v) leaves in the slot that held was
NeqOutcome(was, now, v) ==
    IF was.value = v
    THEN now.value = was.value /\ now.changed = was.changed
    ELSE now.value = v /\ now.changed = "Queued"

\* the slot of node sc that set_states meets first for id
C30Applied(sc, id, i) ==
    NeqOutcome(sc.states[i], ScopeById(roots', sc.id).states[i], queued[id].arg)

\* C30: when set_states runs to its end, every set_neq(state, v) in the
\* queue whose StateId is in a tree has been applied, and the slot it was
\* applied to was compared with v as it stood at that moment: equal, the
\* slot keeps its value and its flag; different, the value becomes v and
\* the flag Queued.
C30_SetNeq ==
    [][(Runs("set_states") /\ panicked' = NoPanic)
       => /\ \A sc \in AllScopes(roots) : \A i \in 1..Len(sc.states) :
                IsNeq(queued, sc.states[i].id)
                => \E e \in Events(log', "apply") : log'[e].id = sc.states[i].id
          /\ \A e \in Events(log', "apply") :
                IsNeq(queued, log'[e].id)
                => C30Applied(ScopeById(roots, log'[e].n), log'[e].id,
                              FindId(ScopeById(roots, log'[e].n).states, log'[e].id))]_vars

\* set_neq(ID, v) was submitted while the slot of the manual id held v; the
\* Root was then replaced and its new tree composed with the default value:
\* set_states has just compared v with the default, stored v and flagged
\* the slot Queued
C30_Witness ==
    /\ phase = 4
    /\ panicked = NoPanic
    /\ \E e \in Events(log, "apply") :
          /\ log[e].a.kind = "Modify"
          /\ log[e].a.f = "neq"
          /\ log[e].id \in DOMAIN seen
          /\ seen[log[e].id] = log[e].a.arg
          /\ log[e].was.value # log[e].a.arg
          /\ log[e].res.flag
          /\ \E sc \in AllScopes(roots) : \E i \in 1..Len(sc.states) :
                /\ sc.states[i].id = log[e].id
                /\ sc.states[i].value = log[e].a.arg
                /\ sc.states[i].changed = "Queued"

\* the other way round: v differed from the slot's value at submission and
\* equals it at application; the slot is untouched
C30_Untouched ==
    /\ phase = 4
    /\ panicked = NoPanic
    /\ \E e \in Events(log, "apply") :
          /\ log[e].a.kind = "Modify"
          /\ log[e].a.f = "neq"
          /\ log[e].id \in DOMAIN seen
          /\ seen[log[e].id] # log[e].a.arg
          /\ log[e].was.value = log[e].a.arg
          /\ ~log[e].res.flag
          /\ \E sc \in AllScopes(roots) : \E i \in 1..Len(sc.states) :
                sc.states[i] = log[e].was

\* ---- optional nodes
OptionNodes(rs) == {o \in AllScopes(rs) : o.composer.kind = "Option" /\ o.children # <<>>}

\* the nodes composed from the value of the Option: the children of the
\* dynamic-type node it returns, the unit nodes of None left out
InnerOf(o) ==
    {o.children[1].children[i] :
        i \in {j \in 1..Len(o.children[1].children) :
                  TypeIdOf(o.children[1].children[j].composer) # "()"}}

\* the slots of node c were all created by its hooks in the log, with the
\* initial value of the user struct
C31Fresh(c, old) ==
    /\ c.id \notin NodeIds(old)
    /\ c.id >= uid
    /\ EventsOf(log', "new", c.id) # {}
    /\ \A i \in 1..Len(c.states) : c.states[i].id \notin AllSlotIds(old)
    /\ \A h \in EventsOf(log', "hook", c.id) : log'[h].created
    /\ (c.composer.kind = "Leaf" /\ c.composer.ty = "A")
          => \E h \in EventsOf(log', "hook", c.id) : log'[h].value = Val("i32", 0)

\* C31: a pass of an Option node that turns it from Some(c) to None flags
\* the node composed from c; while an Option is None every node composed
\* from its value is flagged; the decomposition phase invokes the hook of
\* such a node and the pruning phase removes it; a pass that turns the
\* Option from None to Some creates a node with a new id and new slots
\* holding the initial state.
C31_OptionNode ==
    [][panicked' = NoPanic
       => /\ \A o \in OptionNodes(roots) :
                (o.id \in NodeIds(roots') /\ Composed(log', o.id) /\ ~After(o).composer.some)
                => \A c \in InnerOf(o) :
                       c.id \in NodeIds(roots') /\ After(c).will_decompose
          /\ \A o \in OptionNodes(roots') :
                ~o.composer.some => \A c \in InnerOf(o) : c.will_decompose
          /\ Runs("decompose")
                => \A o \in OptionNodes(roots) : \A c \in InnerOf(o) :
                       c.will_decompose => EventsOf(log', "decompose", c.id) # {}
          /\ Runs("drop_decomposed_scopes")
                => \A o \in OptionNodes(roots) : \A c \in InnerOf(o) :
                       c.will_decompose => c.id \notin NodeIds(roots')
          /\ \A o \in OptionNodes(roots) :
                (/\ o.id \in NodeIds(roots')
                 /\ Composed(log', o.id)
                 /\ ~o.composer.some
                 /\ After(o).composer.some)
                => /\ \E c \in InnerOf(After(o)) : ~c.will_decompose
                   /\ \A c \in InnerOf(After(o)) : ~c.will_decompose => C31Fresh(c, roots)
      ]_vars

\* an Option that was Some at the first composition and None in the second
\* tick is Some again in the third: the recomposition phase has just made
\* a new node for its value, and the node of the first tick is gone
C31_Witness ==
    /\ tick = 3
    /\ Last(trace) = "recompose"
    /\ panicked = NoPanic
    /\ \E r \in 1..Len(roots) :
          /\ roots[r].compose = Fn("opt_app", TRUE)
          /\ roots[r].scope # <<>>
          /\ \E o \in OptionNodes(<<roots[r]>>) :
                /\ o.composer.some
                /\ Len(o.children[1].children) = 2
                /\ TypeIdOf(o.children[1].children[1].composer) = "()"
                /\ o.children[1].children[1].will_decompose
                /\ \E c \in InnerOf(o) :
                      /\ ~c.will_decompose
                      /\ EventsOf(log, "new", c.id) # {}
                      /\ c.id > o.children[1].id + 1

\* ---- slot flags between phases
\* C32 (as stated): between two systems of the chain and between two ticks
\* no slot of any node of any tree, flagged nodes included, is Changed.
C32_NoChangedAtRest ==
    panicked = NoPanic
    => \A sc \in AllScopes(roots) : \A i \in 1..Len(sc.states) :
           sc.states[i].changed # "Changed"

\* C32 (amended): between two systems of the chain and between two ticks a
\* slot is Changed only in a node flagged for decompose whose decompose hook
\* called use_state (Keyed, Spawn): it is the slot that call created, the
\* last of the node.  No slot of an unflagged node is Changed.
C32_ChangedOnlyInFlagged ==
    panicked = NoPanic
    => \A sc \in AllScopes(roots) : \A i \in 1..Len(sc.states) :
           sc.states[i].changed = "Changed"
           => /\ sc.will_decompose
              /\ sc.composer.kind \in {"Keyed", "Spawn"}
              /\ i = Len(sc.states)
              /\ i > 1

\* the recomposition phase has just composed a node with a slot that was
\* Changed during the pass (a hook read it so) and is Unchanged now
C32_Witness ==
    /\ tick >= 2
    /\ Last(trace) = "recompose"
    /\ panicked = NoPanic
    /\ \E sc \in AllScopes(roots) : \E h \in EventsOf(log, "hook", sc.id) :
          /\ ~sc.will_decompose
          /\ log[h].changed = "Changed"
          /\ ~log[h].created
          /\ \E i \in 1..Len(sc.states) :
                sc.states[i].id = log[h].id /\ sc.states[i].changed = "Unchanged"

\* ---- flags at the start of a phase
\* C33: when set_states or recompose is about to run no node of any tree is
\* flagged for decompose, and the root node of a tree is never flagged.
C33_NoFlagAtStart ==
    /\ (panicked = NoPanic /\ Schedule[phase + 1] \in {"set_states", "recompose"})
          => FlaggedIds(roots) = {}
    /\ \A r \in 1..Len(roots) :
          roots[r].scope # <<>> => ~roots[r].scope[1].will_decompose

\* recompose is about to run in a tree whose list lost items in an earlier
\* tick: the nodes flagged then have been pruned
C33_Witness ==
    /\ tick >= 2
    /\ Last(trace) = "set_states"
    /\ panicked = NoPanic
    /\ FlaggedIds(roots) = {}
    /\ \E r \in 1..Len(roots) :
          /\ roots[r].compose = Fn("list_app", [i \in 1..(MaxKey + 1) |-> i - 1])
          /\ roots[r].scope # <<>>
          /\ \E v \in ScopesOf(roots[r].scope[1]) :
                /\ v.composer.kind = "Vec"
                /\ Len(v.composer.items) < MaxKey + 1
                /\ Len(v.children) = Len(v.composer.items)

\* ---- the key map of a keyed list
VecNodes(rs) == {v \in AllScopes(rs) : v.composer.kind = "Vec"}

Injective(m) == \A j, k \in DOMAIN m : m[j] = m[k] => j = k

\* the map the node holds when its composition starts
C34Start(v) ==
    /\ Len(v.states) = 1
    /\ Injective(KeyMap(v))
    /\ Range(KeyMap(v)) \subseteq SeqToSet(Ids(v.children))

\* the map and the children the composition leaves
C34End(v) ==
    /\ DOMAIN KeyMap(v) = SeqToSet(InputKeys(v))
    /\ Injective(KeyMap(v))
    /\ \A j \in 1..Len(v.children) :
          ~v.children[j].will_decompose
          <=> \E k \in DOMAIN KeyMap(v) : KeyMap(v)[k] = v.children[j].id

\* C34: a keyed-list node that starts a composition holds a key map that
\* is injective and whose node ids are all ids of its children; when the
\* composition has run to its end the keys of the map are the input keys,
\* the map is injective, and the unflagged children are the nodes the map
\* names.
C34_KeyMap ==
    [][/\ \A v \in VecNodes(roots) : EventsOf(log', "begin", v.id) # {} => C34Start(v)
       /\ panicked' = NoPanic
             => \A v \in VecNodes(roots') : Composed(log', v.id) => C34End(v)
      ]_vars

\* a list that held three keys has just been recomposed with fewer: the
\* children of the dropped keys are flagged and out of the map
C34_Witness ==
    /\ tick >= 2
    /\ Last(trace) = "recompose"
    /\ panicked = NoPanic
    /\ \E v \in VecNodes(roots) :
          /\ Composed(log, v.id)
          /\ EventsOf(log, "new", v.id) = {}
          /\ Len(v.children) = MaxKey + 1
          /\ DOMAIN KeyMap(v) # {}
          /\ \E j \in 1..Len(v.children) : v.children[j].will_decompose
          /\ \E j \in 1..Len(v.children) : \E k \in DOMAIN KeyMap(v) :
                ~v.children[j].will_decompose /\ KeyMap(v)[k] = v.children[j].id

\* ---- dynamic-type nodes at rest
DynNodes(rs) == {d \in AllScopes(rs) : d.composer.kind \in {"Dyn", "Keyed"} /\ d.states # <<>>}

Unflagged(d) == {j \in 1..Len(d.children) : ~d.children[j].will_decompose}

\* one unflagged child, of the type the node's first slot holds, and at
\* most one flagged child, which comes before it
C35Shape(d) ==
    /\ Cardinality(Unflagged(d)) = 1
    /\ Len(d.children) <= 2
    /\ Unflagged(d) = {Len(d.children)}
    /\ d.states[1].value.v = TypeIdOf(d.children[Len(d.children)].composer)

AddedKeys(v) == DOMAIN KeyMap(After(v)) \ DOMAIN KeyMap(v)

\* the child of v that its map names for key k
ChildOfKey(v, k) == v.children[FindId(v.children, KeyMap(v)[k])]

\* the subtree under c was made in this step: ids, slots and all
C36Fresh(c) == \A x \in ScopesOf(c) : C31Fresh(x, roots)

\* C36: a key that a pass of a keyed list adds to its map, whether or not
\* an earlier pass had removed it, gets a node made in that pass, with an
\* id and slots that were not in the trees before; no flagged node is in
\* the map of its list after a pass, and a flagged node stays flagged as
\* long as it is in a tree.
C36_KeyReadded ==
    [][/\ panicked' = NoPanic
             => \A v \in VecNodes(roots) :
                    (v.id \in NodeIds(roots') /\ Composed(log', v.id))
                    => \A k \in AddedKeys(v) : C36Fresh(ChildOfKey(After(v), k))
       /\ panicked' = NoPanic
             => \A v \in VecNodes(roots') : \A j \in 1..Len(v.children) :
                    v.children[j].will_decompose
                    => v.children[j].id \notin Range(KeyMap(v))
       /\ \A sc \in AllScopes(roots) :
             (sc.will_decompose /\ sc.id \in NodeIds(roots')) => After(sc).will_decompose
      ]_vars

\* key 1 of the list [0, 1, 2] was removed in the second tick and is back
\* in the third: the recomposition phase has just made its node, and the
\* node of the first tick is gone
C36_Witness ==
    /\ tick = 3
    /\ Last(trace) = "recompose"
    /\ panicked = NoPanic
    /\ \E r \in 1..Len(roots) :
          /\ roots[r].compose = Fn("list_app", [i \in 1..(MaxKey + 1) |-> i - 1])
          /\ roots[r].scope # <<>>
          /\ \E v \in VecNodes(<<roots[r]>>) :
                /\ 1 \in DOMAIN KeyMap(v)
                /\ EventsOf(log, "new", KeyMap(v)[1]) # {}
                /\ ~ChildOfKey(v, 1).will_decompose
                /\ FlaggedIds(roots) = {}
                /\ \A j \in 1..Len(v.children) : v.children[j].id <= KeyMap(v)[1]

\* ---- one teardown per node
\* C37 (as stated): no step invokes the decompose hook of a node twice, and
\* a node that is flagged when a tick has ended, whose hook the
\* decomposition phase of that tick has therefore invoked, does not have
\* its hook invoked again by a later step, the teardown of its Root
\* included.
C37_HookOnce ==
    [][/\ \A sc \in AllScopes(roots) :
             Cardinality(EventsOf(log', "decompose", sc.id)) <= 1
       /\ (phase = 0 /\ tick >= 1)
             => \A sc \in AllScopes(roots) :
                    sc.will_decompose => EventsOf(log', "decompose", sc.id) = {}
      ]_vars

\* ---- closures of decompose hooks
\* the flagged nodes with a system waiting
FlaggedWaiting(rs) == {sc \in AllScopes(rs) : sc.will_decompose /\ sc.queued_systems # <<>>}

\* the entity a Spawn node has spawned, if any
HasEntity(sc) == sc.composer.kind = "Spawn" /\ sc.states[1].value.v # <<>>

\* C38: the decompose hook of a Spawn node with an entity enqueues its
\* despawn system in the node; a system waiting in a flagged node stays
\* there, with the node, through every step that keeps the tree until
\* run_queued_systems runs it, once, the node still in the tree; and
\* drop_decomposed_scopes removes no node that has a system waiting.
C38_HookClosures ==
    [][/\ (Runs("decompose") /\ tick >= 1 /\ panicked' = NoPanic)
             => \A sc \in AllScopes(roots') :
                    (sc.will_decompose /\ HasEntity(sc))
                    => \E i \in 1..Len(sc.queued_systems) :
                           sc.queued_systems[i] = [sys |-> "despawn",
                                                   entity |-> sc.states[1].value.v[1]]
       /\ (~Runs("run_queued_systems") /\ RootsKept)
             => \A sc \in FlaggedWaiting(roots) :
                    /\ sc.id \in NodeIds(roots')
                    /\ After(sc).queued_systems = sc.queued_systems
       /\ (Runs("run_queued_systems") /\ panicked' = NoPanic)
             => \A sc \in FlaggedWaiting(roots) :
                    /\ sc.id \in NodeIds(roots')
                    /\ After(sc).will_decompose
                    /\ \A i \in 1..Len(sc.queued_systems) : RanOnce(log', sc.queued_systems[i])
       /\ Runs("drop_decomposed_scopes")
             => \A sc \in AllScopes(roots) :
                    sc.id \notin NodeIds(roots') => sc.queued_systems = <<>>
      ]_vars

\* run_queued_systems has just run the despawn system that the decompose
\* hook of a Spawn node enqueued in the previous tick; the node, flagged,
\* is still in the tree
C38_Witness ==
    /\ tick >= 2
    /\ Last(trace) = "run_queued_systems"
    /\ panicked = NoPanic
    /\ \E sc \in AllScopes(roots) :
          /\ sc.will_decompose
          /\ HasEntity(sc)
          /\ sc.queued_systems = <<>>
          /\ \E i \in Events(log, "run") :
                log[i].sys = [sys |-> "despawn", entity |-> sc.states[1].value.v[1]]

\* ---- two slots with one manual id
\* the slot of id in node sc is after the step what the action makes of it
SlotApplied(sc, id, a) ==
    After(sc).states[FindId(sc.states, id)]
        = Stored(sc.states[FindId(sc.states, id)],
                 ActionResult(a, sc.states[FindId(sc.states, id)].value))

SlotKept(sc, id) ==
    After(sc).states[FindId(sc.states, id)] = sc.states[FindId(sc.states, id)]

NoLiveQueued(rs) ==
    \A sc \in AllScopes(rs) :
        sc.id \in LiveIds(rs) => \A i \in 1..Len(sc.states) : sc.states[i].changed # "Queued"

\* the tick that applies the last action submitted from outside, and the
\* first tick that has nothing left to do: the one in between recomposes
\* the dynamic-type nodes mounted by the first and the Spawn nodes whose
\* spawn system has run
LastApplyTick == LastSubmitTick + 1
QuietFrom == LastApplyTick + 2

\* the step belongs to tick QuietFrom or a later one
QuietStep == tick >= QuietFrom \/ (tick = QuietFrom - 1 /\ phase = 0)

\* C40: with compose functions that never write a state and no SetState
\* call from outside after tick LastSubmitTick, the app reaches and keeps a
\* state in which no slot of a live node is Queued; that is so no later than
\* the end of the tick after the one that applied the last action, and
\* every step of every later tick invokes no compose and leaves the trees
\* as they are.
C40_Quiescence ==
    /\ <>[](panicked # NoPanic \/ NoLiveQueued(roots))
    /\ []((phase = 0 /\ tick >= QuietFrom - 1 /\ panicked = NoPanic) => NoLiveQueued(roots))
    /\ [][(QuietStep /\ panicked = NoPanic)
            => (roots' = roots /\ Events(log', "begin") = {} /\ panicked' = NoPanic)]_vars

\* a Root whose function switched its dynamic child from A to B in the
\* second tick has been through QuietTicks ticks: the node of B is the one
\* child left, no slot is Queued and the queue is empty
C40_Witness ==
    /\ tick = QuietTicks
    /\ phase = 0
    /\ panicked = NoPanic
    /\ horizon = QuietTicks
    /\ submits >= 1
    /\ queued = <<>>
    /\ NoLiveQueued(roots)
    /\ \E d \in AllScopes(roots) :
          /\ d.composer.kind = "Dyn"
          /\ Len(d.children) = 1
          /\ d.children[1].composer = Leaf("B")
====
